---- MODULE Spec2Model ----
(***************************************************************************)
(* Recursive harmonic structure engine of src/src/App.js: the tuning rule, *)
(* the eager structure generator, the path extractor, the proximity and    *)
(* ratio analyses, and the lazily expanded frequency tree.                 *)
(*                                                                         *)
(* JavaScript values are tagged records.  A number is an exact fraction    *)
(* n/d in lowest terms with d > 0; NaN is the number with d = 0.  The      *)
(* model therefore computes with the real numbers the doubles stand for:   *)
(* rounding of IEEE doubles is not modelled.                               *)
(***************************************************************************)
EXTENDS Integers, Sequences, FiniteSets, TLC

VARIABLES
    baseFrequency,      \* HarmonicFrequencyExplorer state, read through parseFloat
    recursionLevel,
    nHarmonics,
    mode,
    customRatios,
    threshold,
    maxDenominator,
    harmonicStructure,
    closePairs,
    ratios,
    errorLogged,        \* console.error was called by calculateResults
    lastCall,           \* the engine function called last
    currentTab,
    treeData,           \* HierarchicalTree state; Null while the tree is not mounted
    expandedNodes

vars == <<baseFrequency, recursionLevel, nHarmonics, mode, customRatios, threshold,
          maxDenominator, harmonicStructure, closePairs, ratios, errorLogged,
          lastCall, currentTab, treeData, expandedNodes>>

params == <<baseFrequency, recursionLevel, nHarmonics, mode, customRatios, threshold,
            maxDenominator>>

(***************************************************************************)
(* JavaScript values                                                       *)
(***************************************************************************)
Null == [t |-> "null"]
Thrown == [t |-> "throw"]
Arr(items) == [t |-> "arr", items |-> items]

IsArray(v) == v.t = "arr"
IsNumber(v) == v.t = "num"
IsNaN(v) == v.t = "num" /\ v.d = 0
IsNull(v) == v.t = "null"

Abs(i) == IF i < 0 THEN -i ELSE i

RECURSIVE gcd(_, _)
gcd(a, b) == IF b = 0 THEN a ELSE gcd(b, a % b)

NaN == [t |-> "num", n |-> 0, d |-> 0]

\* The number n/d (d # 0) in lowest terms with a positive denominator.
Num(n, d) ==
    LET g == gcd(Abs(n), Abs(d))
        s == IF d < 0 THEN -1 ELSE 1
    IN  [t |-> "num", n |-> s * (n \div g), d |-> s * (d \div g)]

Whole(i) == [t |-> "num", n |-> i, d |-> 1]

\* ToNumber: null coerces to 0 in arithmetic.
ToNumber(v) == IF IsNull(v) THEN Whole(0) ELSE v

\* x * y on doubles; NaN propagates.  Cross-reduced so that the factors stay small.
Mul(x0, y0) ==
    LET x == ToNumber(x0)
        y == ToNumber(y0)
    IN  IF IsNaN(x) \/ IsNaN(y) THEN NaN
        ELSE LET g1 == gcd(Abs(x.n), y.d)
                 g2 == gcd(Abs(y.n), x.d)
             IN  IF x.n = 0 \/ y.n = 0 THEN Whole(0)
                 ELSE [t |-> "num",
                       n |-> (x.n \div g1) * (y.n \div g2),
                       d |-> (x.d \div g2) * (y.d \div g1)]

\* x - y, Math.abs, x / y (0/0 is NaN; the inputs never divide a non-zero by zero).
Sub(x, y) ==
    IF IsNaN(x) \/ IsNaN(y) THEN NaN
    ELSE Num(x.n * y.d - y.n * x.d, x.d * y.d)

MathAbs(x) == IF IsNaN(x) THEN NaN ELSE [t |-> "num", n |-> Abs(x.n), d |-> x.d]

Div(x, y) ==
    IF IsNaN(x) \/ IsNaN(y) \/ y.n = 0 THEN NaN
    ELSE Num(x.n * y.d, x.d * y.n)

\* x < y and x > y; every comparison with NaN is false.
Lt(x, y) == ~IsNaN(x) /\ ~IsNaN(y) /\ x.n * y.d < y.n * x.d
Gt(x, y) == Lt(y, x)

\* Math.max(x, y)
MathMax(x, y) == IF IsNaN(x) \/ IsNaN(y) THEN NaN ELSE IF Lt(x, y) THEN y ELSE x

\* Truthiness of a value used as a condition (!v is its negation).
Truthy(v) ==
    CASE v.t = "null" -> FALSE
      [] v.t = "num" -> ~IsNaN(v) /\ v.n # 0
      [] OTHER -> TRUE

\* Array.prototype.slice(0, k)
Slice(s, k) == SubSeq(s, 1, IF k < Len(s) THEN k ELSE Len(s))

(***************************************************************************)
(* TuningRule                                                              *)
(***************************************************************************)
\* Object.values(JUST_INTONATION_RATIOS), in insertion order.
JUST_INTONATION_RATIOS ==
    << Num(1, 1), Num(16, 15), Num(9, 8), Num(6, 5), Num(5, 4), Num(4, 3), Num(45, 32),
       Num(3, 2), Num(8, 5), Num(5, 3), Num(9, 5), Num(15, 8), Num(2, 1) >>

\* Math.pow(2, i / 12) for i = 0..11, to two decimals.
EQUAL_TEMPERAMENT_RATIOS ==
    << Num(100, 100), Num(106, 100), Num(112, 100), Num(119, 100), Num(126, 100),
       Num(133, 100), Num(141, 100), Num(150, 100), Num(159, 100), Num(168, 100),
       Num(178, 100), Num(189, 100) >>

\* Array.prototype.sort((a, b) => a - b), as an insertion sort (stable).
RECURSIVE InsertSorted(_, _)
InsertSorted(s, x) ==
    IF s = <<>> THEN <<x>>
    ELSE IF Lt(x, s[Len(s)]) THEN Append(InsertSorted(SubSeq(s, 1, Len(s) - 1), x), s[Len(s)])
    ELSE Append(s, x)

RECURSIVE SortAscending(_)
SortAscending(s) ==
    IF s = <<>> THEN <<>>
    ELSE InsertSorted(SortAscending(SubSeq(s, 1, Len(s) - 1)), s[Len(s)])

\* Variant: the series starts at f * 0.
generateHarmonicSeries_ZeroBased(f, n) == Arr([i \in 1..n |-> Mul(f, Whole(i - 1))])

generateHarmonicSeries(f, n) == Arr([i \in 1..n |-> Mul(f, Whole(i))])

MapRatios(f, rs) == Arr([i \in 1..Len(rs) |-> Mul(f, rs[i])])

\* Variant: a custom list of fewer than two ratios is rejected.
generateBaseFrequencies_LengthChecked(f, n, m, custom) ==
    IF m = "harmonic" THEN generateHarmonicSeries(f, n)
    ELSE IF m = "just" THEN MapRatios(f, Slice(SortAscending(JUST_INTONATION_RATIOS), n))
    ELSE IF m = "equal" THEN MapRatios(f, Slice(EQUAL_TEMPERAMENT_RATIOS, n))
    ELSE IF m = "custom" /\ Truthy(custom) /\ Len(custom.items) >= 2
         THEN MapRatios(f, Slice(custom.items, n))
    ELSE Thrown

\* Variant: an unknown mode falls back to the harmonic series.
generateBaseFrequencies_DefaultsToHarmonic(f, n, m, custom) ==
    IF m = "just" THEN MapRatios(f, Slice(SortAscending(JUST_INTONATION_RATIOS), n))
    ELSE IF m = "equal" THEN MapRatios(f, Slice(EQUAL_TEMPERAMENT_RATIOS, n))
    ELSE IF m = "custom"
         THEN IF Truthy(custom) THEN MapRatios(f, Slice(custom.items, n)) ELSE Thrown
    ELSE generateHarmonicSeries(f, n)

\* Variant: mode just rejects a breadth beyond its table.
generateBaseFrequencies_RejectsLongJust(f, n, m, custom) ==
    IF m = "harmonic" THEN generateHarmonicSeries(f, n)
    ELSE IF m = "just"
         THEN IF n > Len(JUST_INTONATION_RATIOS) THEN Thrown
              ELSE MapRatios(f, Slice(SortAscending(JUST_INTONATION_RATIOS), n))
    ELSE IF m = "equal" THEN MapRatios(f, Slice(EQUAL_TEMPERAMENT_RATIOS, n))
    ELSE IF m = "custom" /\ Truthy(custom) THEN MapRatios(f, Slice(custom.items, n))
    ELSE Thrown

generateBaseFrequencies(f, n, m, custom) ==
    IF m = "harmonic" THEN generateHarmonicSeries(f, n)
    ELSE IF m = "just" THEN MapRatios(f, Slice(SortAscending(JUST_INTONATION_RATIOS), n))
    ELSE IF m = "equal" THEN MapRatios(f, Slice(EQUAL_TEMPERAMENT_RATIOS, n))
    ELSE IF m = "custom" /\ Truthy(custom) THEN MapRatios(f, Slice(custom.items, n))
    ELSE Thrown

(***************************************************************************)
(* StructureGenerator                                                      *)
(***************************************************************************)
\* Variant: NaN passes for a number.
IsValidNumber_AcceptsNaN(v) == IsNumber(v)

IsValidNumber(v) == IsNumber(v) /\ ~IsNaN(v)

\* H^1: every valid frequency of H^0 generates its own series; others are skipped.
LevelOne(prevLevel, n, m, custom) ==
    LET kept == SelectSeq(prevLevel.items, IsValidNumber)
    IN  Arr([i \in 1..Len(kept) |-> generateBaseFrequencies(kept[i], n, m, custom)])

\* Variant: every frequency of an array is replaced by the series of the first.
RECURSIVE processNestedLevel_FromFirstLeaf(_, _, _, _)
processNestedLevel_FromFirstLeaf(data, n, m, custom) ==
    IF IsArray(data)
    THEN IF Len(data.items) > 0 /\ IsNumber(data.items[1])
         THEN Arr([i \in 1..Len(data.items) |->
                    generateBaseFrequencies(data.items[1], n, m, custom)])
         ELSE Arr([i \in 1..Len(data.items) |->
                    processNestedLevel_FromFirstLeaf(data.items[i], n, m, custom)])
    ELSE Arr(<<>>)

\* H^2+: the nested arrays are walked down to the arrays of frequencies.
RECURSIVE processNestedLevel(_, _, _, _)
processNestedLevel(data, n, m, custom) ==
    IF IsArray(data)
    THEN IF Len(data.items) > 0 /\ IsNumber(data.items[1])
         THEN Arr([i \in 1..Len(data.items) |->
                    IF IsValidNumber(data.items[i])
                    THEN generateBaseFrequencies(data.items[i], n, m, custom)
                    ELSE Arr(<<>>)])
         ELSE Arr([i \in 1..Len(data.items) |->
                    processNestedLevel(data.items[i], n, m, custom)])
    ELSE Arr(<<>>)

\* Variant: the loop runs while level < maxLevel.
RECURSIVE BuildLevels_StopsEarly(_, _, _, _, _, _)
BuildLevels_StopsEarly(levels, level, maxLevel, n, m, custom) ==
    IF level >= maxLevel THEN levels
    ELSE LET prevLevel == levels[level]
             currentLevel == IF level = 1
                             THEN LevelOne(prevLevel, n, m, custom)
                             ELSE processNestedLevel(prevLevel, n, m, custom)
         IN  BuildLevels_StopsEarly(Append(levels, currentLevel), level + 1, maxLevel,
                                    n, m, custom)

\* The loop "for (level = 1; level <= maxLevel; level++)" from `level` on.
RECURSIVE BuildLevels(_, _, _, _, _, _)
BuildLevels(levels, level, maxLevel, n, m, custom) ==
    IF level > maxLevel THEN levels
    ELSE LET prevLevel == levels[level]     \* structure.levels[level - 1]
             currentLevel == IF level = 1
                             THEN LevelOne(prevLevel, n, m, custom)
                             ELSE processNestedLevel(prevLevel, n, m, custom)
         IN  BuildLevels(Append(levels, currentLevel), level + 1, maxLevel, n, m, custom)

\* Thrown when the first generateBaseFrequencies call throws.  Every later call
\* passes the same mode and customRatios, which alone decide the throw.
generateHarmonicStructure(baseFreq, maxLevel, n, m, custom) ==
    LET H0 == generateBaseFrequencies(baseFreq, n, m, custom)
    IN  IF H0 = Thrown THEN Thrown
        ELSE [t |-> "obj", base |-> baseFreq,
              levels |-> BuildLevels(<<H0>>, 1, maxLevel, n, m, custom)]

(***************************************************************************)
(* PathExtractor                                                           *)
(***************************************************************************)
\* `H^${levelIndex}[${fullPath.join(',')}]`, kept as its parts.
PathString(levelIndex, fullPath) == <<"H^", levelIndex, fullPath>>
BasePathString == <<"Base">>

\* Variant: the record keeps the path of the enclosing array only.
FrequencyRecord_WithoutLastIndex(freq, levelIndex, fullPath) ==
    [frequency |-> freq, level |-> levelIndex,
     path |-> SubSeq(fullPath, 1, Len(fullPath) - 1),
     pathString |-> PathString(levelIndex, fullPath)]

FrequencyRecord(freq, levelIndex, fullPath) ==
    [frequency |-> freq, level |-> levelIndex, path |-> fullPath,
     pathString |-> PathString(levelIndex, fullPath)]

\* A loop over the positions lo..hi is run as its two halves, one after the
\* other, so that the depth of the evaluation stays logarithmic in hi - lo.

\* processLevel: data.forEach over the elements at positions lo..hi (index = lo - 1).
RECURSIVE processLevel(_, _, _, _)
RECURSIVE processLevelRange(_, _, _, _, _, _)
processLevelRange(data, lo, hi, currentPath, depth, levelIndex) ==
    IF lo > hi THEN <<>>
    ELSE IF lo = hi
    THEN LET el == data.items[lo]
         IN  IF depth = 0
             THEN IF IsValidNumber(el)
                  THEN <<FrequencyRecord(el, levelIndex, Append(currentPath, lo - 1))>>
                  ELSE <<>>
             ELSE IF IsArray(el)
                  THEN processLevel(el, Append(currentPath, lo - 1), depth - 1, levelIndex)
                  ELSE <<>>
    ELSE LET mid == (lo + hi) \div 2
         IN  processLevelRange(data, lo, mid, currentPath, depth, levelIndex)
             \o processLevelRange(data, mid + 1, hi, currentPath, depth, levelIndex)

processLevel(data, currentPath, depth, levelIndex) ==
    IF ~IsArray(data) THEN <<>>
    ELSE processLevelRange(data, 1, Len(data.items), currentPath, depth, levelIndex)

\* structure.levels.forEach, from position k on (levelIndex = k - 1).  H^0 is
\* read by its own loop, which emits the same records as processLevel at depth 0.
RECURSIVE ExtractLevelsFrom(_, _)
ExtractLevelsFrom(levels, k) ==
    IF k > Len(levels) THEN <<>>
    ELSE LET level == levels[k]
             levelIndex == k - 1
             here == IF ~Truthy(level) THEN <<>>
                     ELSE IF levelIndex = 0
                          THEN IF IsArray(level)
                               THEN processLevel(level, <<>>, 0, 0)
                               ELSE <<>>
                          ELSE processLevel(level, <<>>, levelIndex, levelIndex)
         IN  here \o ExtractLevelsFrom(levels, k + 1)

extractAllFrequenciesWithPaths(structure) ==
    IF ~Truthy(structure) \/ ~Truthy(structure.base) THEN <<>>
    ELSE LET baseRecord ==
                 IF IsValidNumber(structure.base)
                 THEN <<[frequency |-> structure.base, level |-> -1, path |-> <<>>,
                         pathString |-> BasePathString]>>
                 ELSE <<>>
         IN  baseRecord \o ExtractLevelsFrom(structure.levels, 1)

flattenFrequencies(structure) ==
    LET allFreqs == extractAllFrequenciesWithPaths(structure)
    IN  [i \in 1..Len(allFreqs) |-> allFreqs[i].frequency]

(***************************************************************************)
(* ProximityAnalyzer                                                       *)
(***************************************************************************)
\* The guard of both analysis loops: skip a record that is missing or not a number.
BothValid(freq1, freq2) == IsValidNumber(freq1.frequency) /\ IsValidNumber(freq2.frequency)

RelDiff(a, b) == Div(MathAbs(Sub(a, b)), MathMax(a, b))

\* Variant: a relative difference equal to the threshold counts as close.
IsClose_Inclusive(relDiff, thr) == ~Gt(relDiff, thr) /\ ~IsNaN(relDiff) /\ Gt(relDiff, Whole(0))

\* Variant: exact matches are not filtered out.
IsClose_KeepsExactMatches(relDiff, thr) == Lt(relDiff, thr)

IsClose(relDiff, thr) == Lt(relDiff, thr) /\ Gt(relDiff, Whole(0))

ClosePair(freq1, freq2, relDiff) ==
    [freq1 |-> freq1.frequency, freq2 |-> freq2.frequency,
     path1 |-> freq1.pathString, path2 |-> freq2.pathString,
     difference |-> relDiff, level1 |-> freq1.level, level2 |-> freq2.level]

\* The inner loop "for (j = i + 1; j < allFreqs.length; j++)" over positions lo..hi.
RECURSIVE CloseInner(_, _, _, _, _)
CloseInner(allFreqs, i, lo, hi, thr) ==
    IF lo > hi THEN <<>>
    ELSE IF lo = hi
    THEN LET freq1 == allFreqs[i]
             freq2 == allFreqs[lo]
             relDiff == RelDiff(freq1.frequency, freq2.frequency)
         IN  IF BothValid(freq1, freq2) /\ IsClose(relDiff, thr)
             THEN <<ClosePair(freq1, freq2, relDiff)>>
             ELSE <<>>
    ELSE LET mid == (lo + hi) \div 2
         IN  CloseInner(allFreqs, i, lo, mid, thr) \o CloseInner(allFreqs, i, mid + 1, hi, thr)

\* The outer loop "for (i = 0; i < allFreqs.length; i++)" over positions lo..hi.
RECURSIVE CloseOuter(_, _, _, _)
CloseOuter(allFreqs, lo, hi, thr) ==
    IF lo > hi THEN <<>>
    ELSE IF lo = hi THEN CloseInner(allFreqs, lo, lo + 1, Len(allFreqs), thr)
    ELSE LET mid == (lo + hi) \div 2
         IN  CloseOuter(allFreqs, lo, mid, thr) \o CloseOuter(allFreqs, mid + 1, hi, thr)

findCloseFrequencies(structure, thr) ==
    LET allFreqs == extractAllFrequenciesWithPaths(structure)
    IN  CloseOuter(allFreqs, 1, Len(allFreqs), thr)

(***************************************************************************)
(* RationalApproximator                                                    *)
(***************************************************************************)
Infinity == [t |-> "inf"]

\* Variant: a later candidate with an equal error replaces the best one.
LtBest_OrEqual(diff, bestDiff) ==
    IF bestDiff.t = "inf" THEN ~IsNaN(diff) ELSE ~Gt(diff, bestDiff) /\ ~IsNaN(diff)

\* diff < bestDiff, where bestDiff starts as Infinity.
LtBest(diff, bestDiff) ==
    IF bestDiff.t = "inf" THEN ~IsNaN(diff) ELSE Lt(diff, bestDiff)

\* One pass of the loop body; best carries bestDiff and bestRatio.
SearchStep(actualRatio, denom, num, best) ==
    IF /\ gcd(num, denom) = 1
       /\ LtBest(MathAbs(Sub(actualRatio, Num(num, denom))), best.bestDiff)
    THEN [bestDiff |-> MathAbs(Sub(actualRatio, Num(num, denom))),
          bestRatio |-> <<num, denom>>]
    ELSE best

\* TRUE, once v has been evaluated: the state left by the first half of a loop is
\* computed before the second half starts from it.
Evaluated(v) == v = v

\* The inner loop "for (num = 1; num <= denom; num++)" over num = lo..hi.
RECURSIVE SearchNum(_, _, _, _, _)
SearchNum(actualRatio, denom, lo, hi, best) ==
    IF lo > hi THEN best
    ELSE IF lo = hi THEN SearchStep(actualRatio, denom, lo, best)
    ELSE LET mid == (lo + hi) \div 2
             first == SearchNum(actualRatio, denom, lo, mid, best)
         IN  IF Evaluated(first)
             THEN SearchNum(actualRatio, denom, mid + 1, hi, first)
             ELSE first

\* The outer loop "for (denom = 1; denom <= maxDenominator; denom++)" over denom = lo..hi.
RECURSIVE SearchDenom(_, _, _, _)
SearchDenom(actualRatio, lo, hi, best) ==
    IF lo > hi THEN best
    ELSE IF lo = hi THEN SearchNum(actualRatio, lo, 1, lo, best)
    ELSE LET mid == (lo + hi) \div 2
             first == SearchDenom(actualRatio, lo, mid, best)
         IN  IF Evaluated(first)
             THEN SearchDenom(actualRatio, mid + 1, hi, first)
             ELSE first

\* Variant: the denominator loop stops one short of maxDenom.
ClosestSimpleRatio_ExclusiveBound(actualRatio, maxDenom) ==
    SearchDenom(actualRatio, 1, maxDenom - 1, [bestDiff |-> Infinity, bestRatio |-> <<0, 0>>])

ClosestSimpleRatio(actualRatio, maxDenom) ==
    SearchDenom(actualRatio, 1, maxDenom, [bestDiff |-> Infinity, bestRatio |-> <<0, 0>>])

\* Variant: the larger frequency is divided by the smaller.
ActualRatio_LargerOverSmaller(a, b) == IF Lt(a, b) THEN Div(b, a) ELSE Div(a, b)

ActualRatio(a, b) == IF Lt(a, b) THEN Div(a, b) ELSE Div(b, a)

RatioEntry(freq1, freq2, maxDenom) ==
    LET actualRatio == ActualRatio(freq1.frequency, freq2.frequency)
        best == ClosestSimpleRatio(actualRatio, maxDenom)
    IN  [freq1 |-> freq1.frequency, freq2 |-> freq2.frequency,
         path1 |-> freq1.pathString, path2 |-> freq2.pathString,
         actualRatio |-> actualRatio, simpleRatio |-> best.bestRatio,
         difference |-> best.bestDiff]

\* The analysis reads the records at indices 0..99 only.
PairLimit == 100

Min(a, b) == IF a < b THEN a ELSE b

\* "for (j = i + 1; j < allFreqs.length && j < 100; j++)" over positions lo..hi.
RECURSIVE RatioInner(_, _, _, _, _)
RatioInner(allFreqs, i, lo, hi, maxDenom) ==
    IF lo > hi THEN <<>>
    ELSE IF lo = hi
    THEN IF BothValid(allFreqs[i], allFreqs[lo])
         THEN <<RatioEntry(allFreqs[i], allFreqs[lo], maxDenom)>>
         ELSE <<>>
    ELSE LET mid == (lo + hi) \div 2
         IN  RatioInner(allFreqs, i, lo, mid, maxDenom)
             \o RatioInner(allFreqs, i, mid + 1, hi, maxDenom)

\* Variant: the inner loop runs to the end of the list.
RECURSIVE RatioOuter_InnerToEnd(_, _, _, _)
RatioOuter_InnerToEnd(allFreqs, lo, hi, maxDenom) ==
    IF lo > hi THEN <<>>
    ELSE IF lo = hi
    THEN RatioInner(allFreqs, lo, lo + 1, Len(allFreqs), maxDenom)
    ELSE LET mid == (lo + hi) \div 2
         IN  RatioOuter_InnerToEnd(allFreqs, lo, mid, maxDenom)
             \o RatioOuter_InnerToEnd(allFreqs, mid + 1, hi, maxDenom)

\* "for (i = 0; i < allFreqs.length && i < 100; i++)" over positions lo..hi.
RECURSIVE RatioOuter(_, _, _, _)
RatioOuter(allFreqs, lo, hi, maxDenom) ==
    IF lo > hi THEN <<>>
    ELSE IF lo = hi
    THEN RatioInner(allFreqs, lo, lo + 1, Min(Len(allFreqs), PairLimit), maxDenom)
    ELSE LET mid == (lo + hi) \div 2
         IN  RatioOuter(allFreqs, lo, mid, maxDenom)
             \o RatioOuter(allFreqs, mid + 1, hi, maxDenom)

analyzeFrequencyRatios(structure, maxDenom) ==
    LET allFreqs == extractAllFrequenciesWithPaths(structure)
    IN  RatioOuter(allFreqs, 1, Min(Len(allFreqs), PairLimit), maxDenom)

(***************************************************************************)
(* Engine calls: generateHarmonicStructure, findCloseFrequencies and       *)
(* analyzeFrequencyRatios applied to arguments drawn from bounded sets.    *)
(***************************************************************************)
RECURSIVE Pow(_, _)
Pow(b, e) == IF e = 0 THEN 1 ELSE b * Pow(b, e - 1)

\* Limits of the parameter controls and of the custom-ratio parser.
MinRecursionLevel == 0
MaxRecursionLevel == 3
MinHarmonics == 3
MaxHarmonics == 13
MinCustomRatios == 2
MaxCustomRatios == 20

\* Largest levels[maxLevel] the engine is called on: breadth^(maxLevel+1) leaves.
MaxLeaves == 200

Modes == {"harmonic", "just", "equal", "custom"}
OtherModes == {"pythagorean", "Harmonic", ""}

\* The initial customRatios state: 1, 1.25, ..., 2.75.
DefaultCustomRatios == Arr([i \in 1..8 |-> Num(i + 3, 4)])
\* A list of MaxCustomRatios entries: 1, 1.05, ..., 1.95.
LongCustomRatios == Arr([i \in 1..MaxCustomRatios |-> Num(i + 19, 20)])
ShortCustomRatios == Arr(<<Whole(1), Num(3, 2)>>)

CustomRatioInputs ==
    {Null, Arr(<<>>), Arr(<<Num(3, 2)>>), ShortCustomRatios, DefaultCustomRatios,
     LongCustomRatios}

DefaultThreshold == Num(1, 100)
DefaultMaxDenominator == 12

Shapes ==
    {sh \in (MinCustomRatios..MaxCustomRatios) \X (MinRecursionLevel..MaxRecursionLevel) :
        Pow(sh[1], sh[2] + 1) <= MaxLeaves}

\* Arguments of build: every shape, mode and custom list at base 440.
BuildInputs ==
    {[base |-> Whole(440), level |-> sh[2], n |-> sh[1], mode |-> m, custom |-> Null] :
        sh \in Shapes, m \in (Modes \ {"custom"}) \cup OtherModes}
    \cup
    {[base |-> Whole(440), level |-> sh[2], n |-> sh[1], mode |-> "custom", custom |-> c] :
        sh \in Shapes, c \in CustomRatioInputs}

\* Degenerate arguments of build: a base that is NaN, negative or zero, and
\* a custom list with a NaN in it.
DegenerateBases == {NaN, Whole(-440), Whole(0)}
NaNCustomRatios == Arr(<<Whole(1), NaN, Num(3, 2)>>)

DegenerateInputs ==
    {[base |-> b, level |-> l, n |-> 3, mode |-> m,
      custom |-> IF m = "custom" THEN ShortCustomRatios ELSE Null] :
        b \in DegenerateBases, l \in MinRecursionLevel..MaxRecursionLevel, m \in Modes}
    \cup
    {[base |-> Whole(440), level |-> l, n |-> 3, mode |-> "custom", custom |-> NaNCustomRatios] :
        l \in MinRecursionLevel..MaxRecursionLevel}

\* Structures small enough for the two all-pairs analyses.
AnalysisInputs ==
    {[base |-> b, level |-> 0, n |-> n, mode |-> "harmonic", custom |-> Null] :
        b \in {Whole(1), Whole(440)}, n \in {3, 4}}
    \cup
    {[base |-> Whole(440), level |-> 1, n |-> n, mode |-> "harmonic", custom |-> Null] :
        n \in {3, 4}}
    \cup
    {[base |-> Whole(440), level |-> 0, n |-> 12, mode |-> "harmonic", custom |-> Null],
     [base |-> Whole(440), level |-> 0, n |-> 13, mode |-> "just", custom |-> Null],
     [base |-> Whole(440), level |-> 0, n |-> 13, mode |-> "equal", custom |-> Null]}
    \cup
    {[base |-> Whole(440), level |-> l, n |-> 3, mode |-> "custom", custom |-> c] :
        l \in {0, 1}, c \in {ShortCustomRatios, DefaultCustomRatios}}

\* A structure of 1 + 5 + 25 + 125 records, more than the ratio analysis reads;
\* it is analysed with the smallest maxDenominator only.
LargeAnalysisInput ==
    [base |-> Whole(440), level |-> 2, n |-> 5, mode |-> "harmonic", custom |-> Null]

ThresholdInputs == {Num(1, 100), Num(1, 10), Num(1, 3)}
MinDenominator == 2
MaxDenominator == 24
DenominatorInputs == MinDenominator..MaxDenominator

\* The arguments calculateResults passes on: parseFloat(baseFrequency) is the
\* stored number, and customRatios reaches the engine in mode custom only.
CustomArg == IF mode = "custom" THEN customRatios ELSE Null

CurrentInput ==
    [base |-> baseFrequency, level |-> recursionLevel, n |-> nHarmonics, mode |-> mode,
     custom |-> IF mode = "custom" THEN customRatios ELSE Null]

InitEngine ==
    /\ \E in \in BuildInputs \cup AnalysisInputs \cup DegenerateInputs :
          /\ baseFrequency = in.base
          /\ recursionLevel = in.level
          /\ nHarmonics = in.n
          /\ mode = in.mode
          /\ customRatios = in.custom
    /\ threshold = DefaultThreshold
    /\ maxDenominator = DefaultMaxDenominator
    /\ harmonicStructure = Null
    /\ closePairs = <<>>
    /\ ratios = <<>>
    /\ errorLogged = FALSE
    /\ lastCall = "none"
    /\ currentTab = "tree"
    /\ treeData = Null
    /\ expandedNodes = {}

CallBuild ==
    /\ lastCall = "none"
    /\ lastCall' = "build"
    /\ LET structure == generateHarmonicStructure(baseFrequency, recursionLevel, nHarmonics,
                                                  mode, CustomArg)
       IN  IF structure = Thrown
           THEN errorLogged' = TRUE /\ UNCHANGED harmonicStructure
           ELSE harmonicStructure' = structure /\ UNCHANGED errorLogged
    /\ UNCHANGED <<params, closePairs, ratios, currentTab, treeData, expandedNodes>>

\* Each analysis is called once, on a freshly built structure.
CallFindClose ==
    /\ ~IsNull(harmonicStructure)
    /\ CurrentInput \in AnalysisInputs
    /\ lastCall = "build"
    /\ lastCall' = "findClose"
    /\ \E thr \in ThresholdInputs :
          /\ threshold' = thr
          /\ closePairs' = findCloseFrequencies(harmonicStructure, thr)
    /\ UNCHANGED <<baseFrequency, recursionLevel, nHarmonics, mode, customRatios,
                   maxDenominator, harmonicStructure, ratios, errorLogged, currentTab,
                   treeData, expandedNodes>>

CallAnalyze ==
    /\ ~IsNull(harmonicStructure)
    /\ CurrentInput \in AnalysisInputs \cup {LargeAnalysisInput}
    /\ lastCall = "build"
    /\ lastCall' = "analyze"
    /\ \E md \in IF CurrentInput = LargeAnalysisInput THEN {MinDenominator}
                 ELSE DenominatorInputs :
          /\ maxDenominator' = md
          /\ ratios' = analyzeFrequencyRatios(harmonicStructure, md)
    /\ UNCHANGED <<baseFrequency, recursionLevel, nHarmonics, mode, customRatios,
                   threshold, harmonicStructure, closePairs, errorLogged, currentTab,
                   treeData, expandedNodes>>

NextEngine == CallBuild \/ CallFindClose \/ CallAnalyze

SpecEngine == InitEngine /\ [][NextEngine]_vars

(***************************************************************************)
(* TreeModel: the lazily expanded frequency tree of HierarchicalTree        *)
(***************************************************************************)
\* String.prototype.startsWith and includes.
startsWith(str, prefix) == Len(str) >= Len(prefix) /\ SubSeq(str, 1, Len(prefix)) = prefix

includes(str, part) ==
    \E k \in 1..(Len(str) - Len(part) + 1) : SubSeq(str, k, k + Len(part) - 1) = part

\* The bare root; maxLevel, maxChildren, mode and customRatios are not used.
\* The display name of a node is presentation and is left out of the records.
createFrequencyTree(f, maxLevel, maxChildren, m, custom) ==
    [t |-> "node", id |-> "root", value |-> f, level |-> -1, nodeType |-> "root", baseFreq |-> f,
     recursionIndices |-> <<>>, children |-> <<>>]

\* A child of the root: index i is zero-based, freqs is one-based.
RootChild(freqs, i, baseFreq) ==
    [t |-> "node", id |-> "h0-" \o ToString(i), value |-> freqs[i + 1], level |-> 0,
     nodeType |-> "frequency", index |-> i, baseFreq |-> baseFreq,
     recursionIndices |-> <<i>>, children |-> <<>>]

\* Variant: the id of a child of a frequency node leaves out its parent's id.
FrequencyChild_IdWithoutParent(node, freqs, i) ==
    [t |-> "node", id |-> "h" \o ToString(node.level + 1) \o "-" \o ToString(i),
     value |-> freqs[i + 1], level |-> node.level + 1, nodeType |-> "frequency",
     index |-> i, baseFreq |-> node.baseFreq, parentFreq |-> node.value,
     recursionIndices |-> Append(node.recursionIndices, i), children |-> <<>>]

\* Variant: a child of a frequency node inherits its parent's path unchanged.
FrequencyChild_KeepsParentPath(node, freqs, i) ==
    [t |-> "node", id |-> "h" \o ToString(node.level + 1) \o "-" \o node.id \o "-" \o ToString(i),
     value |-> freqs[i + 1], level |-> node.level + 1, nodeType |-> "frequency",
     index |-> i, baseFreq |-> node.baseFreq, parentFreq |-> node.value,
     recursionIndices |-> node.recursionIndices, children |-> <<>>]

FrequencyChild(node, freqs, i) ==
    [t |-> "node", id |-> "h" \o ToString(node.level + 1) \o "-" \o node.id \o "-" \o ToString(i),
     value |-> freqs[i + 1], level |-> node.level + 1, nodeType |-> "frequency",
     index |-> i, baseFreq |-> node.baseFreq, parentFreq |-> node.value,
     recursionIndices |-> Append(node.recursionIndices, i), children |-> <<>>]

\* Variant: the children of the root start at the second harmonic.
generateChildrenForNode_SkipsFirst(node, baseFreq, maxChildren, m, maxLevel, custom) ==
    IF node.nodeType = "root"
    THEN LET h0 == generateHarmonicSeries(baseFreq, maxChildren + 1).items
         IN  Arr([i \in 1..maxChildren |-> RootChild(Tail(h0), i - 1, baseFreq)])
    ELSE Arr(<<>>)

\* Variant: a frequency node gets children whatever its level.
generateChildrenForNode_IgnoresMaxLevel(node, baseFreq, maxChildren, m, maxLevel, custom) ==
    IF node.nodeType = "root"
    THEN LET h0Frequencies == generateBaseFrequencies(baseFreq, maxChildren, m, custom)
         IN  Arr([i \in 1..Len(h0Frequencies.items) |->
                     RootChild(h0Frequencies.items, i - 1, baseFreq)])
    ELSE LET frequencies == generateBaseFrequencies(node.value, maxChildren, m, custom)
         IN  Arr([i \in 1..Len(frequencies.items) |->
                     FrequencyChild(node, frequencies.items, i - 1)])

\* Variant: the children of a frequency node are generated from the base
\* frequency, not from the node's own value.
generateChildrenForNode_FromBaseFreq(node, baseFreq, maxChildren, m, maxLevel, custom) ==
    IF IsNull(node) THEN Null
    ELSE IF node.nodeType = "root"
    THEN LET h0Frequencies == generateBaseFrequencies(baseFreq, maxChildren, m, custom)
         IN  IF h0Frequencies = Thrown THEN Thrown
             ELSE Arr([i \in 1..Len(h0Frequencies.items) |->
                          RootChild(h0Frequencies.items, i - 1, baseFreq)])
    ELSE IF node.nodeType = "frequency"
    THEN IF node.level + 1 > maxLevel THEN Arr(<<>>)
         ELSE LET frequencies == generateBaseFrequencies(baseFreq, maxChildren, m, custom)
              IN  IF frequencies = Thrown THEN Thrown
                  ELSE Arr([i \in 1..Len(frequencies.items) |->
                               FrequencyChild(node, frequencies.items, i - 1)])
    ELSE Arr(<<>>)

\* The array of children, or Thrown when the tuning rule throws.
generateChildrenForNode(node, baseFreq, maxChildren, m, maxLevel, custom) ==
    IF IsNull(node) THEN Null
    ELSE IF node.nodeType = "root"
    THEN LET h0Frequencies == generateBaseFrequencies(baseFreq, maxChildren, m, custom)
         IN  IF h0Frequencies = Thrown THEN Thrown
             ELSE Arr([i \in 1..Len(h0Frequencies.items) |->
                          RootChild(h0Frequencies.items, i - 1, baseFreq)])
    ELSE IF node.nodeType = "frequency"
    THEN IF node.level + 1 > maxLevel THEN Arr(<<>>)
         ELSE LET frequencies == generateBaseFrequencies(node.value, maxChildren, m, custom)
              IN  IF frequencies = Thrown THEN Thrown
                  ELSE Arr([i \in 1..Len(frequencies.items) |->
                               FrequencyChild(node, frequencies.items, i - 1)])
    ELSE Arr(<<>>)

\* JSON.stringify writes NaN as null.
JsonNumber(v) == IF IsNaN(v) THEN Null ELSE v

\* JSON.parse(JSON.stringify(node))
RECURSIVE JsonClone(_)
JsonClone(node) ==
    LET copied == [f \in DOMAIN node |->
                      IF f \in {"value", "baseFreq", "parentFreq"} THEN JsonNumber(node[f])
                      ELSE node[f]]
    IN  [copied EXCEPT !.children = [k \in 1..Len(node.children) |-> JsonClone(node.children[k])]]

\* findAndUpdateNode mutates the clone and reports whether it did; here it
\* returns the report, the node after the call and whether the call threw.
RECURSIVE findAndUpdateNode(_, _, _, _, _, _, _)
RECURSIVE findAndUpdateChildren(_, _, _, _, _, _, _, _)
findAndUpdateNode(currentNode, targetId, baseFreq, maxChildren, m, maxLevel, custom) ==
    IF currentNode.id = targetId
    THEN IF Len(currentNode.children) = 0
         THEN LET newChildren == generateChildrenForNode(currentNode, baseFreq, maxChildren,
                                                         m, maxLevel, custom)
              IN  IF newChildren = Thrown
                  THEN [updated |-> FALSE, thrown |-> TRUE, node |-> currentNode]
                  ELSE IF Len(newChildren.items) > 0
                  THEN [updated |-> TRUE, thrown |-> FALSE,
                        node |-> [currentNode EXCEPT !.children = newChildren.items]]
                  ELSE [updated |-> FALSE, thrown |-> FALSE, node |-> currentNode]
         ELSE [updated |-> FALSE, thrown |-> FALSE, node |-> currentNode]
    ELSE findAndUpdateChildren(currentNode, 1, targetId, baseFreq, maxChildren, m, maxLevel,
                               custom)

\* "for (let child of currentNode.children)" from position k on; the first
\* child that reports an update ends the loop.
findAndUpdateChildren(currentNode, k, targetId, baseFreq, maxChildren, m, maxLevel, custom) ==
    IF k > Len(currentNode.children)
    THEN [updated |-> FALSE, thrown |-> FALSE, node |-> currentNode]
    ELSE LET r == findAndUpdateNode(currentNode.children[k], targetId, baseFreq, maxChildren,
                                    m, maxLevel, custom)
         IN  IF r.thrown THEN [r EXCEPT !.node = currentNode]
             ELSE IF r.updated
             THEN [r EXCEPT !.node = [currentNode EXCEPT !.children[k] = r.node]]
             ELSE findAndUpdateChildren(currentNode, k + 1, targetId, baseFreq, maxChildren,
                                        m, maxLevel, custom)

\* The ids toggleNode removes from the expanded set when nodeId is collapsed.
IsRemovedByCollapse(id, nodeId) ==
    \/ id = nodeId
    \/ startsWith(id, nodeId \o "-")
    \/ includes(id, "-" \o nodeId \o "-")

\* getVisibleNodes(node, result, parent): the nodes in display order; parent
\* is the id of the parent's entry, Null for the root.  x and y are filled in
\* by calculatePositions.
\* Variant: the flag tells whether the node may have children at all.
HasMaterializedChildren_Structural(node) ==
    node.nodeType = "root" \/ node.level + 1 <= recursionLevel

\* node.children && node.children.length > 0
HasMaterializedChildren(node) == Len(node.children) > 0

\* Variant: the children of an expanded node are emitted, but not what is
\* below them.
getVisibleNodes_OneLevel(node, parent) ==
    IF IsNull(node) THEN <<>>
    ELSE LET NodeInfo(n, p) ==
                 [id |-> n.id, value |-> n.value, nodeType |-> n.nodeType, level |-> n.level,
                  hasChildren |-> HasMaterializedChildren(n), isExpanded |-> n.id \in expandedNodes,
                  parent |-> p]
         IN  <<NodeInfo(node, parent)>> \o
             (IF node.id \in expandedNodes
              THEN [k \in 1..Len(node.children) |-> NodeInfo(node.children[k], node.id)]
              ELSE <<>>)

RECURSIVE getVisibleNodes(_, _)
RECURSIVE VisibleChildren(_, _)
getVisibleNodes(node, parent) ==
    IF IsNull(node) THEN <<>>
    ELSE LET isExpanded == node.id \in expandedNodes
             nodeInfo == [id |-> node.id, value |-> node.value, nodeType |-> node.nodeType,
                          level |-> node.level, hasChildren |-> HasMaterializedChildren(node),
                          isExpanded |-> isExpanded, parent |-> parent]
         IN  <<nodeInfo>> \o
             (IF isExpanded /\ Len(node.children) > 0 THEN VisibleChildren(node, 1) ELSE <<>>)

VisibleChildren(node, k) ==
    IF k > Len(node.children) THEN <<>>
    ELSE getVisibleNodes(node.children[k], node.id) \o VisibleChildren(node, k + 1)

(***************************************************************************)
(* HarmonicFrequencyExplorer with its HierarchicalTree                     *)
(*                                                                         *)
(* One action is one event handler together with the renders and effects   *)
(* it causes: React runs them to completion before the next event.         *)
(***************************************************************************)
\* Variant: the structure and the close pairs are stored, the ratios are left
\* as they were.
calculateResults_KeepsOldRatios(b, l, n, m, c, thr, md) ==
    /\ IF generateHarmonicStructure(b, l, n, m, IF m = "custom" THEN c ELSE Null) = Thrown
       THEN errorLogged' = TRUE /\ UNCHANGED <<harmonicStructure, closePairs, ratios>>
       ELSE /\ harmonicStructure' =
                  generateHarmonicStructure(b, l, n, m, IF m = "custom" THEN c ELSE Null)
            /\ closePairs' = findCloseFrequencies(harmonicStructure', thr)
            /\ UNCHANGED <<ratios, errorLogged>>
    /\ lastCall' = "calculateResults"

\* calculateResults: the three results are stored together, or none of them
\* when the structure generator throws.
calculateResults(b, l, n, m, c, thr, md) ==
    /\ IF generateHarmonicStructure(b, l, n, m, IF m = "custom" THEN c ELSE Null) = Thrown
       THEN errorLogged' = TRUE /\ UNCHANGED <<harmonicStructure, closePairs, ratios>>
       ELSE /\ harmonicStructure' =
                  generateHarmonicStructure(b, l, n, m, IF m = "custom" THEN c ELSE Null)
            /\ closePairs' = findCloseFrequencies(harmonicStructure', thr)
            /\ ratios' = analyzeFrequencyRatios(harmonicStructure', md)
            /\ UNCHANGED errorLogged
    /\ lastCall' = "calculateResults"

\* The tree's two effects: on [data] the root handed down replaces treeData;
\* on [baseFreq, nHarmonics, mode, maxLevel] the expanded set is reset.
TreeEffects(b, l, n, m, c) ==
    IF currentTab = "tree"
    THEN /\ treeData' = createFrequencyTree(b, l, n, m, IF m = "custom" THEN c ELSE Null)
         /\ expandedNodes' =
               IF <<b, n, m, l>> # <<baseFrequency, nHarmonics, mode, recursionLevel>>
               THEN {"root"}
               ELSE expandedNodes
    ELSE UNCHANGED <<treeData, expandedNodes>>

\* A state update followed by the effects that depend on it: the effect of
\* HarmonicFrequencyExplorer on [baseFrequency, recursionLevel, nHarmonics,
\* mode, threshold, maxDenominator, customRatios] recomputes the results and
\* hands a fresh root to the tree.
SetParameters(b, l, n, m, c, thr, md) ==
    /\ baseFrequency' = b
    /\ recursionLevel' = l
    /\ nHarmonics' = n
    /\ mode' = m
    /\ customRatios' = c
    /\ threshold' = thr
    /\ maxDenominator' = md
    /\ calculateResults(b, l, n, m, c, thr, md)
    /\ TreeEffects(b, l, n, m, c)
    /\ UNCHANGED currentTab

MaxExpanded == 3

\* parseFloat of the text of the base frequency field; NaN for an emptied field.
AppBaseInputs == {Whole(440), NaN}
AppLevelInputs == {0, 1}
AppHarmonicsInputs == {3, 4}
AppModeInputs == {"harmonic", "custom"}
AppThresholdInputs == {Num(1, 100), Num(1, 10)}
AppDenominatorInputs == {2, 3}
Tabs == {"tree", "sideView"}

\* The clicks that are explored: on the root, on its children 0 and 1, and
\* below them on child 0.
ClickableIndices == {0, 1}
DeepClickableIndices == {0}

\* What value.split(',').map(s => parseFloat(s.trim())) yields for the texts
\* "1, 1.5", "1, x, 1.5, -2", "2" and "0, 0".
CustomRatioTexts ==
    {<<Whole(1), Num(3, 2)>>,
     <<Whole(1), NaN, Num(3, 2), Whole(-2)>>,
     <<Whole(2)>>,
     <<Whole(0), Whole(0)>>}

\* Variant: filter(n => !isNaN(n) && n >= 0)
IsAcceptedRatio_AllowsZero(n) == ~IsNaN(n) /\ ~Lt(n, Whole(0))

\* filter(n => !isNaN(n) && n > 0)
IsAcceptedRatio(n) == ~IsNaN(n) /\ Gt(n, Whole(0))

\* The state once the first effects have run, for parameters in the bounded sets.
Init ==
    /\ baseFrequency = Whole(440)
    /\ recursionLevel = 1
    /\ nHarmonics = 3
    /\ mode = "harmonic"
    /\ customRatios = ShortCustomRatios
    /\ threshold = DefaultThreshold
    /\ maxDenominator = 2
    /\ harmonicStructure = generateHarmonicStructure(Whole(440), 1, 3, "harmonic", Null)
    /\ closePairs = findCloseFrequencies(harmonicStructure, DefaultThreshold)
    /\ ratios = analyzeFrequencyRatios(harmonicStructure, 2)
    /\ errorLogged = FALSE
    /\ lastCall = "calculateResults"
    /\ currentTab = "tree"
    /\ treeData = createFrequencyTree(Whole(440), 1, 3, "harmonic", Null)
    /\ expandedNodes = {"root"}

\* A setter called with the value already held leaves the state as it is.
SetBaseFrequency ==
    \E v \in AppBaseInputs :
        /\ v # baseFrequency
        /\ SetParameters(v, recursionLevel, nHarmonics, mode, customRatios, threshold,
                         maxDenominator)

SetRecursionLevel ==
    \E v \in AppLevelInputs :
        /\ v # recursionLevel
        /\ SetParameters(baseFrequency, v, nHarmonics, mode, customRatios, threshold,
                         maxDenominator)

SetNHarmonics ==
    \E v \in AppHarmonicsInputs :
        /\ v # nHarmonics
        /\ SetParameters(baseFrequency, recursionLevel, v, mode, customRatios, threshold,
                         maxDenominator)

SetMode ==
    \E v \in AppModeInputs :
        /\ v # mode
        /\ SetParameters(baseFrequency, recursionLevel, nHarmonics, v, customRatios, threshold,
                         maxDenominator)

SetThreshold ==
    \E v \in AppThresholdInputs :
        /\ v # threshold
        /\ SetParameters(baseFrequency, recursionLevel, nHarmonics, mode, customRatios, v,
                         maxDenominator)

SetMaxDenominator ==
    \E v \in AppDenominatorInputs :
        /\ v # maxDenominator
        /\ SetParameters(baseFrequency, recursionLevel, nHarmonics, mode, customRatios,
                         threshold, v)

\* The parsed entries are filtered to the positive numbers; a list of 2..20
\* of them is stored as a new array, which runs the effects even when its
\* entries are the ones already held.
handleCustomRatiosChange(parsed) ==
    LET newRatios == SelectSeq(parsed, IsAcceptedRatio)
    IN  IF Len(newRatios) >= MinCustomRatios /\ Len(newRatios) <= MaxCustomRatios
        THEN SetParameters(baseFrequency, recursionLevel, nHarmonics, mode,
                           Arr(newRatios), threshold, maxDenominator)
        ELSE UNCHANGED vars

\* The field is drawn in mode custom only.
TypeCustomRatios ==
    /\ mode = "custom"
    /\ \E parsed \in CustomRatioTexts : handleCustomRatiosChange(parsed)

\* Leaving the tree tab unmounts HierarchicalTree and drops its state;
\* coming back mounts it with the root held by the parent.
SetCurrentTab ==
    \E tab \in Tabs :
        /\ tab # currentTab
        /\ currentTab' = tab
        /\ IF tab = "tree"
           THEN /\ treeData' = createFrequencyTree(baseFrequency, recursionLevel, nHarmonics,
                                                   mode, CustomArg)
                /\ expandedNodes' = {"root"}
           ELSE IF currentTab = "tree"
           THEN treeData' = Null /\ expandedNodes' = {}
           ELSE UNCHANGED <<treeData, expandedNodes>>
        /\ UNCHANGED <<params, harmonicStructure, closePairs, ratios, errorLogged, lastCall>>

\* The ids of the root and of the nodes reached through clickable children.
ClickableIds ==
    LET h0 == {"h0-" \o ToString(i) : i \in ClickableIndices}
        h1 == {"h1-" \o id \o "-" \o ToString(i) : id \in h0, i \in DeepClickableIndices}
        h2 == {"h2-" \o id \o "-" \o ToString(i) : id \in h1, i \in DeepClickableIndices}
    IN  {"root"} \cup h0 \cup h1 \cup h2

IsClickable(nodeId) == nodeId \in ClickableIds

\* A click on a drawn node calls toggleNode with its id.
toggleNode ==
    /\ currentTab = "tree"
    /\ \E k \in 1..Len(getVisibleNodes(treeData, Null)) :
          LET nodeId == getVisibleNodes(treeData, Null)[k].id
          IN  /\ IsClickable(nodeId)
              /\ IF nodeId \in expandedNodes
                 THEN /\ expandedNodes' =
                            {id \in expandedNodes : ~IsRemovedByCollapse(id, nodeId)}
                      /\ UNCHANGED treeData
                 ELSE /\ Cardinality(expandedNodes) < MaxExpanded
                      /\ LET r == findAndUpdateNode(JsonClone(treeData), nodeId,
                                                    baseFrequency, nHarmonics, mode,
                                                    recursionLevel, CustomArg)
                         IN  /\ ~r.thrown
                             /\ expandedNodes' = expandedNodes \cup {nodeId}
                             /\ treeData' = IF r.updated THEN r.node ELSE treeData
    /\ UNCHANGED <<params, harmonicStructure, closePairs, ratios, errorLogged, lastCall,
                   currentTab>>

Next ==
    \/ SetBaseFrequency
    \/ SetRecursionLevel
    \/ SetNHarmonics
    \/ SetMode
    \/ SetThreshold
    \/ SetMaxDenominator
    \/ TypeCustomRatios
    \/ SetCurrentTab
    \/ toggleNode

Spec == Init /\ [][Next]_vars

(***************************************************************************)
(* The custom-ratio field on its own: the parameter controls and the field,*)
(* typed into with a wider choice of texts, on a tree that is never        *)
(* expanded.                                                               *)
(***************************************************************************)
RatioTextEntries == {Whole(1), Num(3, 2), NaN, Whole(-2), Whole(0)}

\* The parsed entries of texts of one and two fields, of a text of three
\* ratios, of a text of MaxCustomRatios ratios and of one ratio more.
RatioTextInputs ==
    UNION {[1..len -> RatioTextEntries] : len \in 1..2}
    \cup {<<Num(5, 4), Num(3, 2), Whole(2)>>,
          LongCustomRatios.items,
          Append(LongCustomRatios.items, Whole(2))}

TypeRatioText ==
    /\ mode = "custom"
    /\ \E parsed \in RatioTextInputs : handleCustomRatiosChange(parsed)

NextRatios ==
    \/ SetBaseFrequency
    \/ SetRecursionLevel
    \/ SetNHarmonics
    \/ SetMode
    \/ SetThreshold
    \/ SetMaxDenominator
    \/ TypeRatioText

SpecRatios == Init /\ [][NextRatios]_vars

(***************************************************************************)
(* calculateResults on its own: the component from its mount on, its       *)
(* parameter state set to values drawn from a bounded set that includes    *)
(* the two cases in which the structure generator throws, a mode unknown   *)
(* to the tuning rule and custom ratios that are null.                     *)
(***************************************************************************)
ResultInputs ==
    [base : {Whole(440)}, level : {0, 1}, n : {3},
     tuning : {<<"harmonic", ShortCustomRatios>>, <<"custom", ShortCustomRatios>>,
               <<"custom", Null>>, <<"pythagorean", ShortCustomRatios>>},
     threshold : {Num(1, 100), Num(1, 10)}, maxDenominator : {2, 3}]

\* The useState values of the results before the first effect has run.
InitResults ==
    /\ baseFrequency = Whole(440)
    /\ recursionLevel = 1
    /\ nHarmonics = 3
    /\ mode = "harmonic"
    /\ customRatios = ShortCustomRatios
    /\ threshold = DefaultThreshold
    /\ maxDenominator = 2
    /\ harmonicStructure = Null
    /\ closePairs = <<>>
    /\ ratios = <<>>
    /\ errorLogged = FALSE
    /\ lastCall = "none"
    /\ currentTab = "tree"
    /\ treeData = Null
    /\ expandedNodes = {"root"}

\* The parameter state is set and the effect on it runs.
Recalculate ==
    \E in \in ResultInputs :
        SetParameters(in.base, in.level, in.n, in.tuning[1], in.tuning[2], in.threshold,
                      in.maxDenominator)

SpecResults == InitResults /\ [][Recalculate]_vars

(***************************************************************************)
(* Properties of the engine, checked under SpecEngine                      *)
(***************************************************************************)
Built == ~IsNull(harmonicStructure)
BuildCalled == lastCall # "none"

IsPositive(v) == IsValidNumber(v) /\ v.n > 0

ValidCustomRatios(c) ==
    /\ IsArray(c)
    /\ Len(c.items) \in MinCustomRatios..MaxCustomRatios
    /\ \A i \in 1..Len(c.items) : IsPositive(c.items[i])

\* The inputs the interface accepts.
ValidTuning ==
    \/ mode \in {"harmonic", "just", "equal"} /\ nHarmonics \in MinHarmonics..MaxHarmonics
    \/ /\ mode = "custom"
       /\ nHarmonics \in MinCustomRatios..MaxCustomRatios
       /\ ValidCustomRatios(customRatios)

ValidInput ==
    /\ IsPositive(baseFrequency)
    /\ recursionLevel \in MinRecursionLevel..MaxRecursionLevel
    /\ ValidTuning

\* 1 + b + b^2 + ... + b^(d+1)
RECURSIVE GeometricCount(_, _)
GeometricCount(b, d) == IF d < 0 THEN 1 ELSE Pow(b, d + 1) + GeometricCount(b, d - 1)

\* The number of ratios the tuning rule has to choose from.
AvailableRatios ==
    CASE mode = "harmonic" -> nHarmonics
      [] mode = "just" -> 13
      [] mode = "equal" -> 12
      [] mode = "custom" -> Len(customRatios.items)

EffectiveBreadth == Min(nHarmonics, AvailableRatios)

RecordCount == Len(extractAllFrequenciesWithPaths(harmonicStructure))

\* C1 as claimed: for every valid input, flatten(build(...)) has exactly
\* 1 + breadth + breadth^2 + ... + breadth^(maxDepth+1) records.
C1_CountByBreadth ==
    (Built /\ ValidInput) => RecordCount = GeometricCount(nHarmonics, recursionLevel)

\* C1 amended: for every valid input, flatten(build(...)) has exactly
\* 1 + n + n^2 + ... + n^(maxDepth+1) records, where n is the number of
\* frequencies the tuning rule returns: min(breadth, 12) in mode equal,
\* min(breadth, number of custom ratios) in mode custom, breadth otherwise.
C1_CountByEffectiveBreadth ==
    (Built /\ ValidInput) => RecordCount = GeometricCount(EffectiveBreadth, recursionLevel)

\* A truncated build: mode equal asked for 13 notes, two levels deep.
C1_Witness ==
    /\ Built /\ ValidInput
    /\ mode = "equal" /\ nHarmonics = 13 /\ recursionLevel = 1
    /\ RecordCount = 157

\* The first level of the built structure is the tuning rule applied to the base.
H0 == harmonicStructure.levels[1].items

\* H0[i] = base * i, in integers.
IsHarmonicSeries(items, f) ==
    \A i \in 1..Len(items) :
        IsValidNumber(items[i]) /\ items[i].n * f.d = f.n * i * items[i].d

\* C2 as claimed: generate returns exactly breadth frequencies in every mode and
\* for every accepted breadth; in mode harmonic the i-th (from 0) is f*(i+1).
C2_LengthIsBreadth ==
    (Built /\ ValidInput) =>
        /\ Len(H0) = nHarmonics
        /\ mode = "harmonic" => IsHarmonicSeries(H0, baseFrequency)

\* C2 amended: generate returns min(breadth, number of ratios available)
\* frequencies (12 ratios in mode equal, 13 in mode just, the length of
\* customRatios in mode custom, unbounded in mode harmonic); in mode harmonic
\* the i-th (from 0) is f*(i+1).
C2_LengthIsCappedBreadth ==
    (Built /\ ValidInput) =>
        /\ Len(H0) = EffectiveBreadth
        /\ mode = "harmonic" => IsHarmonicSeries(H0, baseFrequency)

\* Mode custom with a breadth beyond the eight ratios given.
C2_Witness ==
    /\ Built /\ ValidInput
    /\ mode = "custom" /\ customRatios = DefaultCustomRatios /\ nHarmonics = 13
    /\ Len(H0) = 8

\* The first min(breadth, length) entries of ratios, each times f, in integers.
IsScaledPrefix(items, ratioList, f, breadth) ==
    /\ Len(items) = Min(breadth, Len(ratioList))
    /\ \A i \in 1..Len(items) :
          items[i].n * f.d * ratioList[i].d = f.n * ratioList[i].n * items[i].d

C4_UnknownModeThrows ==
    (BuildCalled /\ mode \notin Modes) =>
        /\ errorLogged
        /\ ~Built
        /\ generateBaseFrequencies(baseFrequency, nHarmonics, mode, CustomArg) = Thrown

C4_Witness == BuildCalled /\ mode = "pythagorean" /\ errorLogged /\ ~Built

\* The flattened records of the built structure.
Records == extractAllFrequenciesWithPaths(harmonicStructure)

Max(a, b) == IF a < b THEN b ELSE a

\* 0 < |a - b| / max(a, b) < thr, over the integers: a and b are brought to the
\* common denominator a.d * b.d.
Qualifies(a, b, thr) ==
    LET x == a.n * b.d
        y == b.n * a.d
    IN  /\ Max(x, y) > 0
        /\ x # y
        /\ Abs(x - y) * thr.d < thr.n * Max(x, y)

\* v = |a - b| / max(a, b), over the integers.
IsRelativeDifference(v, a, b) ==
    LET x == a.n * b.d
        y == b.n * a.d
    IN  v.n * Max(x, y) = Abs(x - y) * v.d

QualifyingPairs ==
    {q \in (1..Len(Records)) \X (1..Len(Records)) :
        q[1] < q[2] /\ Qualifies(Records[q[1]].frequency, Records[q[2]].frequency, threshold)}

\* The position of q among the qualifying pairs in ascending (i, j) order.
RankOf(q) ==
    Cardinality({r \in QualifyingPairs : r[1] < q[1] \/ (r[1] = q[1] /\ r[2] <= q[2])})

\* C5: findClosePairs returns exactly the pairs (i, j), i < j, with
\* 0 < relativeDifference < threshold, each once, in ascending (i, j) order.
C5_ExactlyTheClosePairs ==
    (lastCall = "findClose") =>
        /\ Len(closePairs) = Cardinality(QualifyingPairs)
        /\ \A q \in QualifyingPairs :
              LET p == closePairs[RankOf(q)]
                  r1 == Records[q[1]]
                  r2 == Records[q[2]]
              IN  /\ p.path1 = r1.pathString /\ p.freq1 = r1.frequency
                  /\ p.path2 = r2.pathString /\ p.freq2 = r2.frequency
                  /\ IsRelativeDifference(p.difference, r1.frequency, r2.frequency)
        /\ \A k \in 1..Len(closePairs) :
              /\ closePairs[k].difference.n > 0
              /\ closePairs[k].difference.n * threshold.d
                    < threshold.n * closePairs[k].difference.d

\* Some pairs are returned, an exact match is left out and a distant pair is left out.
C5_Witness ==
    /\ lastCall = "findClose"
    /\ Len(closePairs) >= 2
    /\ \E i, j \in 1..Len(Records) :
          i < j /\ Records[i].frequency = Records[j].frequency
    /\ \E i, j \in 1..Len(Records) :
          /\ i < j
          /\ Records[i].frequency # Records[j].frequency
          /\ ~Qualifies(Records[i].frequency, Records[j].frequency, threshold)

\* C6: for base 440, mode harmonic, breadth 12, maxDepth 0 and threshold 0.01 the
\* pair list is empty: base and H^0[0] are equal, every other pair differs by
\* at least 1/12.
C6_HarmonicSeriesHasNoClosePairs ==
    (/\ lastCall = "findClose"
     /\ baseFrequency = Whole(440) /\ mode = "harmonic" /\ nHarmonics = 12
     /\ recursionLevel = 0 /\ threshold = Num(1, 100)) =>
        /\ closePairs = <<>>
        /\ Len(Records) = 13
        /\ \A i, j \in 1..Len(Records) :
              i < j =>
                 \/ <<i, j>> = <<1, 2>> /\ Records[i].frequency = Records[j].frequency
                 \/ ~Qualifies(Records[i].frequency, Records[j].frequency, Num(1, 12))
                    /\ Records[i].frequency # Records[j].frequency

C6_Witness ==
    /\ lastCall = "findClose"
    /\ baseFrequency = Whole(440) /\ mode = "harmonic" /\ nHarmonics = 12
    /\ recursionLevel = 0 /\ threshold = Num(1, 100)
    /\ Records[1].frequency = Whole(440) /\ Records[2].frequency = Whole(440)
    /\ Records[13].frequency = Whole(5280)

Coprime(p, q) == \A g \in 2..q : ~(p % g = 0 /\ q % g = 0)

ReducedFractions(maxDenom) ==
    {f \in (1..maxDenom) \X (1..maxDenom) : f[1] <= f[2] /\ Coprime(f[1], f[2])}

\* |a - p/q| * a.d * q, an integer; errors to the same a compare by cross-multiplying.
ScaledError(a, p, q) == Abs(a.n * q - p * a.d)

ErrorLeq(a, f, g) == ScaledError(a, f[1], f[2]) * g[2] <= ScaledError(a, g[1], g[2]) * f[2]

\* C7: every returned fraction is reduced, lies in 1 <= numerator <= denominator
\* <= maxDenominator, is at least as close to actualRatio as every other such
\* fraction, and the reported error is its distance to actualRatio.
C7_ClosestReducedFraction ==
    (lastCall = "analyze") =>
        \A k \in 1..Len(ratios) :
            LET e == ratios[k]
                a == e.actualRatio
            IN  /\ e.simpleRatio \in ReducedFractions(maxDenominator)
                /\ \A f \in ReducedFractions(maxDenominator) : ErrorLeq(a, e.simpleRatio, f)
                /\ e.difference.n * a.d * e.simpleRatio[2]
                      = ScaledError(a, e.simpleRatio[1], e.simpleRatio[2]) * e.difference.d

\* An analysis with the largest maxDenominator whose answers use a denominator above 12.
C7_Witness ==
    /\ lastCall = "analyze"
    /\ maxDenominator = 24
    /\ \E k \in 1..Len(ratios) : ratios[k].simpleRatio[2] > 12 /\ ratios[k].difference.n = 0
    /\ \E k \in 1..Len(ratios) : ratios[k].difference.n > 0

\* C8: among the reduced fractions with the same minimal error, the first in
\* ascending (denominator, numerator) order is returned: actualRatio 3/4 with
\* maxDenominator 2 gives 1/1, not 1/2.
C8_FirstMinimalWins ==
    (lastCall = "analyze") =>
        \A k \in 1..Len(ratios) :
            LET e == ratios[k]
                a == e.actualRatio
            IN  /\ \A f \in ReducedFractions(maxDenominator) :
                      (ErrorLeq(a, f, e.simpleRatio) /\ f # e.simpleRatio) =>
                          \/ e.simpleRatio[2] < f[2]
                          \/ e.simpleRatio[2] = f[2] /\ e.simpleRatio[1] < f[1]
                /\ (a = Num(3, 4) /\ maxDenominator = 2) => e.simpleRatio = <<1, 1>>

\* The two fractions 1/1 and 1/2 tie for actualRatio 3/4.
C8_Witness ==
    /\ lastCall = "analyze"
    /\ maxDenominator = 2
    /\ \E k \in 1..Len(ratios) :
          /\ ratios[k].actualRatio = Num(3, 4)
          /\ ratios[k].simpleRatio = <<1, 1>>
          /\ ErrorLeq(ratios[k].actualRatio, <<1, 2>>, <<1, 1>>)

\* One frequency is exactly twice the other.
IsOctave(a, b) ==
    LET x == a.n * b.d
        y == b.n * a.d
    IN  x > 0 /\ y > 0 /\ (2 * x = y \/ 2 * y = x)

\* C9: a pair whose ratio is exactly 0.5 gets numerator 1, denominator 2 and
\* error 0, for every maxDenominator >= 2.
C9_OctaveIsOneHalf ==
    (lastCall = "analyze" /\ maxDenominator >= 2) =>
        \A k \in 1..Len(ratios) :
            IsOctave(ratios[k].freq1, ratios[k].freq2) =>
                /\ ratios[k].simpleRatio = <<1, 2>>
                /\ ratios[k].difference = Whole(0)

C9_Witness ==
    /\ lastCall = "analyze"
    /\ \E k \in 1..Len(ratios) :
          /\ ratios[k].freq1 = Whole(440) /\ ratios[k].freq2 = Whole(880)
          /\ ratios[k].simpleRatio = <<1, 2>>
          /\ ratios[k].difference = Whole(0)

(***************************************************************************)
(* Properties of the tree, checked under Spec                              *)
(***************************************************************************)
VisibleNodes == getVisibleNodes(treeData, Null)

RootChildValues == [k \in 1..Len(treeData.children) |-> treeData.children[k].value]

\* Position of the entry for id in the visible nodes, 0 when it is not drawn.
VisiblePosition(id) ==
    IF \E j \in 1..Len(VisibleNodes) : VisibleNodes[j].id = id
    THEN CHOOSE j \in 1..Len(VisibleNodes) : VisibleNodes[j].id = id
    ELSE 0

\* Every child of the root is drawn once, under the root, in child order.
RootChildrenVisible ==
    /\ VisibleNodes[1].id = "root"
    /\ \A k \in 1..Len(treeData.children) :
          LET child == treeData.children[k]
              j == VisiblePosition(child.id)
          IN  /\ j > 1
              /\ VisibleNodes[j].value = child.value
              /\ VisibleNodes[j].parent = "root"
              /\ Cardinality({i \in 1..Len(VisibleNodes) : VisibleNodes[i].id = child.id}) = 1
              /\ k > 1 => VisiblePosition(treeData.children[k - 1].id) < j

IsTree440x3 ==
    /\ currentTab = "tree"
    /\ baseFrequency = Whole(440)
    /\ nHarmonics = 3
    /\ mode = "harmonic"

\* A toggleNode step that expands the root: no other step adds "root" to the
\* expanded set and leaves the parameters and the tab as they are.
ExpandsRoot ==
    /\ "root" \notin expandedNodes
    /\ expandedNodes' = expandedNodes \cup {"root"}
    /\ UNCHANGED <<params, currentTab>>

RootExpandedAsHarmonics ==
    /\ RootChildValues = <<Whole(440), Whole(880), Whole(1320)>>
    /\ [k \in 1..3 |-> treeData.children[k].id] = <<"h0-0", "h0-1", "h0-2">>
    /\ RootChildrenVisible

\* C10: expanding the root of a tree with base 440, breadth 3 and mode harmonic
\* leaves the root with exactly 3 children, of values 440, 880, 1320 in that
\* order, and the three are among the visible nodes.
C10_ExpandedRootShowsHarmonics ==
    [][(IsTree440x3 /\ ExpandsRoot) => RootExpandedAsHarmonics']_vars

\* The root was collapsed and expanded again: its children are materialized.
C10_Witness ==
    /\ IsTree440x3
    /\ "root" \in expandedNodes
    /\ Len(treeData.children) = 3
    /\ RootExpandedAsHarmonics

\* The nodes of a tree, and the ids below a node, read off the tree itself.
RECURSIVE SubtreeNodes(_)
SubtreeNodes(node) ==
    {node} \cup UNION {SubtreeNodes(node.children[k]) : k \in 1..Len(node.children)}

TreeNodes == IF IsNull(treeData) THEN {} ELSE SubtreeNodes(treeData)

TreeIds == {node.id : node \in TreeNodes}

DescendantIds(n) ==
    UNION {{d.id : d \in SubtreeNodes(node) \ {node}} : node \in {x \in TreeNodes : x.id = n}}

VisibleIds == {VisibleNodes[j].id : j \in 1..Len(VisibleNodes)}

\* A toggleNode step that collapses the drawn, expanded node n.
CollapseStep(n) ==
    /\ currentTab = "tree"
    /\ n \in VisibleIds
    /\ n \in expandedNodes
    /\ expandedNodes' = {id \in expandedNodes : ~IsRemovedByCollapse(id, n)}
    /\ UNCHANGED <<params, currentTab, treeData>>

\* C11: after collapse(n), for every node id n, the root included, the
\* expanded set holds neither n nor the id of a descendant of n, and it still
\* holds the id of every other node that it held before.
C11_CollapseRemovesSubtree ==
    [][\A n \in TreeIds :
          CollapseStep(n) =>
              /\ expandedNodes' \cap ({n} \cup DescendantIds(n)) = {}
              /\ (expandedNodes \cap TreeIds) \ ({n} \cup DescendantIds(n)) \subseteq expandedNodes']_vars

\* The part that holds: collapse(n) removes n, every expanded descendant of a
\* frequency node n, and no id of a node outside the subtree of n.
C11_CollapseBelowRoot ==
    [][\A n \in TreeIds :
          CollapseStep(n) =>
              /\ n \notin expandedNodes'
              /\ n # "root" => expandedNodes' \cap DescendantIds(n) = {}
              /\ n = "root" => expandedNodes' = expandedNodes \ {"root"}
              /\ (expandedNodes \cap TreeIds) \ ({n} \cup DescendantIds(n)) \subseteq expandedNodes']_vars

\* The root is collapsed while one of its children is still in the expanded set.
C11_Witness ==
    /\ currentTab = "tree"
    /\ "root" \notin expandedNodes
    /\ \E id \in expandedNodes : id \in DescendantIds("root")


\* ---- children persistence under expand/collapse ----

\* a call of toggleNode: the only handler that changes the expanded set while
\* the parameters and the tab stay as they are
ToggleStep == expandedNodes' # expandedNodes /\ UNCHANGED <<params, currentTab>>

ChildList(node) == [k \in 1..Len(node.children) |-> <<node.children[k].id, node.children[k].value>>]

Materialized == {node \in TreeNodes : Len(node.children) > 0}

KeepsChildren(node) == \E kept \in TreeNodes' : kept.id = node.id /\ ChildList(kept) = ChildList(node)

KeepsChildIds(node) == \E kept \in TreeNodes' : kept.id = node.id /\ [k \in 1..Len(kept.children) |-> kept.children[k].id] = [k \in 1..Len(node.children) |-> node.children[k].id]

IsCollapse == ToggleStep /\ expandedNodes' \subseteq expandedNodes

ChildrenPersist == /\ \A node \in Materialized : KeepsChildren(node)
                   /\ IsCollapse => treeData' = treeData

ChildIdsPersist == /\ \A node \in Materialized : KeepsChildIds(node)
                   /\ IsCollapse => treeData' = treeData

\* C12: under expand and collapse calls a node whose children have been
\* materialized keeps the same children list (same ids, same values, same
\* order, never empty), and a collapse leaves the tree as it is
C12_ChildrenNeverChange == [][ToggleStep => ChildrenPersist]_vars

\* the same property restricted to trees whose base frequency is a number
C12_ChildrenNeverChangeForNumbers == [][(ToggleStep /\ ~IsNaN(baseFrequency)) => ChildrenPersist]_vars

\* ids, order and length are kept for every base frequency
C12_ChildIdsNeverChange == [][ToggleStep => ChildIdsPersist]_vars

C12_Witness == /\ currentTab = "tree"
               /\ "root" \notin expandedNodes
               /\ \E node \in Materialized : node.id = "root" /\ \E child \in Materialized : child.id = node.children[1].id


(***************************************************************************)
(* LayoutEngine: calculatePositions                                        *)
(***************************************************************************)
Add(x, y) ==
    IF IsNaN(x) \/ IsNaN(y) THEN NaN
    ELSE Num(x.n * y.d + y.n * x.d, x.d * y.d)

MathMin(x, y) == IF IsNaN(x) \/ IsNaN(y) THEN NaN ELSE IF Lt(y, x) THEN y ELSE x

horizontalSpacing == 250
rootX == 50
rootY == 200
minNodeSpacing == 20
maxNodeSpacing == 50
minGroupSpacing == 10
maxGroupSpacing == 40
SpacingScale == 60
FirstGroupTop == -500
FirstGroupLift == 100
LaterGroupLift == 200
InitialGlobalY == -10

\* A set of integers as an ascending sequence.
RECURSIVE Ascending(_)
Ascending(ints) ==
    IF ints = {} THEN <<>>
    ELSE LET least == CHOOSE i \in ints : \A other \in ints : i <= other
         IN  <<least>> \o Ascending(ints \ {least})

\* The entries of list at the given positions.
SelectAt(list, indices) == [j \in 1..Len(indices) |-> list[indices[j]]]

\* The key of nodesByParent for an entry: only the root's entry has no parent.
ParentKey(info) == IF info.nodeType = "root" THEN "none" ELSE info.parent

\* Object.keys of nodesByParent: the parent keys of a level in the order of
\* their first node.
RECURSIVE ParentKeys(_, _, _)
ParentKeys(list, indices, k) ==
    IF k > Len(indices) THEN <<>>
    ELSE LET key == ParentKey(list[indices[k]])
             rest == ParentKeys(list, indices, k + 1)
         IN  <<key>> \o SelectAt(rest, Ascending({j \in 1..Len(rest) : rest[j] # key}))

\* Variant: the factor is capped at 1 but not floored at 0.
nodeSpacingFactor_NoFloor(totalNodes) ==
    MathMin(Whole(1), Num(SpacingScale - totalNodes, SpacingScale))

\* nodeSpacingFactor for totalNodes frequency nodes.
nodeSpacingFactor(totalNodes) ==
    MathMax(Whole(0), MathMin(Whole(1), Num(SpacingScale - totalNodes, SpacingScale)))

nodeSpacingFor(totalNodes) ==
    Add(Whole(minNodeSpacing),
        Mul(Whole(maxNodeSpacing - minNodeSpacing), nodeSpacingFactor(totalNodes)))

groupSpacingFor(totalNodes) ==
    Add(Whole(minGroupSpacing),
        Mul(Whole(maxGroupSpacing - minGroupSpacing), nodeSpacingFactor(totalNodes)))

\* Variant: a later group is placed from its parent alone.
startY_IgnoresEarlierGroups(isFirstGroup, globalY, parentY) ==
    IF isFirstGroup
    THEN MathMax(Whole(FirstGroupTop), Sub(parentY, Whole(FirstGroupLift)))
    ELSE Sub(parentY, Whole(LaterGroupLift))

\* startY of a sibling group: the first group of a level is centred on its
\* parent, a later one starts no higher than the end of the groups before it.
startY(isFirstGroup, globalY, parentY) ==
    IF isFirstGroup
    THEN MathMax(Whole(FirstGroupTop), Sub(parentY, Whole(FirstGroupLift)))
    ELSE MathMax(globalY, Sub(parentY, Whole(LaterGroupLift)))

\* The body of "Object.values(nodesByParent).forEach" from group g on:
\* the entries after the sibling groups of one level have been placed.
RECURSIVE PlaceGroups(_, _, _, _, _, _, _, _)
PlaceGroups(list, indices, keys, g, globalY, isFirstGroup, nodeSpacing, groupSpacing) ==
    IF g > Len(keys) THEN list
    ELSE LET siblings == SelectAt(indices,
                                  Ascending({j \in 1..Len(indices) :
                                                ParentKey(list[indices[j]]) = keys[g]}))
         IN  IF keys[g] = "none"
             THEN PlaceGroups(list, indices, keys, g + 1, globalY, isFirstGroup, nodeSpacing,
                              groupSpacing)
             ELSE LET parent == list[CHOOSE k \in 1..Len(list) : list[k].id = keys[g]]
                      x == parent.x + horizontalSpacing
                      groupHeight == Mul(Whole(Len(siblings) - 1), nodeSpacing)
                      top == startY(isFirstGroup, globalY, parent.y)
                      placed == [k \in 1..Len(list) |->
                                   IF \E j \in 1..Len(siblings) : siblings[j] = k
                                   THEN LET index == (CHOOSE j \in 1..Len(siblings) :
                                                         siblings[j] = k) - 1
                                        IN  [list[k] EXCEPT
                                               !.x = x,
                                               !.y = Add(top, Mul(Whole(index), nodeSpacing))]
                                   ELSE list[k]]
                  IN  PlaceGroups(placed, indices, keys, g + 1,
                                  MathMax(globalY, Add(Add(top, groupHeight), groupSpacing)),
                                  FALSE, nodeSpacing, groupSpacing)

\* "levels.forEach" from level position l on.
RECURSIVE PlaceLevels(_, _, _, _, _)
PlaceLevels(list, levels, l, nodeSpacing, groupSpacing) ==
    IF l > Len(levels) THEN list
    ELSE IF levels[l] = -1 THEN PlaceLevels(list, levels, l + 1, nodeSpacing, groupSpacing)
    ELSE LET indices == Ascending({k \in 1..Len(list) : list[k].level = levels[l]})
             keys == ParentKeys(list, indices, 1)
         IN  PlaceLevels(PlaceGroups(list, indices, keys, 1, Whole(InitialGlobalY), TRUE,
                                     nodeSpacing, groupSpacing),
                         levels, l + 1, nodeSpacing, groupSpacing)

\* Variant: the root keeps the x = 0, y = 0 it is listed with.
calculatePositions_RootNotPinned(visibleNodes) ==
    LET start == [k \in 1..Len(visibleNodes) |->
                     [id |-> visibleNodes[k].id, level |-> visibleNodes[k].level,
                      nodeType |-> visibleNodes[k].nodeType,
                      parent |-> visibleNodes[k].parent,
                      x |-> 0, y |-> Whole(0)]]
        totalNodes == Cardinality({k \in 1..Len(visibleNodes) :
                                     visibleNodes[k].nodeType = "frequency"})
        levels == Ascending({visibleNodes[k].level : k \in 1..Len(visibleNodes)})
    IN  PlaceLevels(start, levels, 1, nodeSpacingFor(totalNodes), groupSpacingFor(totalNodes))

\* calculatePositions(visibleNodes): the entries with x and y assigned.  x is
\* an integer, y a number.
calculatePositions(visibleNodes) ==
    LET rootAt == Ascending({k \in 1..Len(visibleNodes) : visibleNodes[k].nodeType = "root"})
        start == [k \in 1..Len(visibleNodes) |->
                     IF Len(rootAt) > 0 /\ k = rootAt[1]
                     THEN [id |-> visibleNodes[k].id, level |-> visibleNodes[k].level,
                           nodeType |-> visibleNodes[k].nodeType,
                           parent |-> visibleNodes[k].parent,
                           x |-> rootX, y |-> Whole(rootY)]
                     ELSE [id |-> visibleNodes[k].id, level |-> visibleNodes[k].level,
                           nodeType |-> visibleNodes[k].nodeType,
                           parent |-> visibleNodes[k].parent,
                           x |-> 0, y |-> Whole(0)]]
        totalNodes == Cardinality({k \in 1..Len(visibleNodes) :
                                     visibleNodes[k].nodeType = "frequency"})
        levels == Ascending({visibleNodes[k].level : k \in 1..Len(visibleNodes)})
    IN  PlaceLevels(start, levels, 1, nodeSpacingFor(totalNodes), groupSpacingFor(totalNodes))


\* ---- layout of the visible nodes ----
\* the positions of the entries of one sibling group
GroupOf(positioned, parentId) ==
    {k \in 1..Len(positioned) : positioned[k].nodeType # "root" /\ positioned[k].parent = parentId}

\* the parents that have a sibling group at a level
GroupParents(positioned, level) ==
    {positioned[k].parent : k \in {j \in 1..Len(positioned) : positioned[j].nodeType # "root" /\ positioned[j].level = level}}

FirstOf(positioned, parentId) ==
    CHOOSE k \in GroupOf(positioned, parentId) : \A other \in GroupOf(positioned, parentId) : k <= other

SiblingsApart(positioned) ==
    \A i, j \in 1..Len(positioned) :
        (i # j /\ positioned[i].nodeType # "root" /\ positioned[j].nodeType # "root"
         /\ positioned[i].parent = positioned[j].parent) => positioned[i].y # positioned[j].y

GroupsApart(positioned) ==
    \A level \in {positioned[k].level : k \in 1..Len(positioned)} :
        \A p, q \in GroupParents(positioned, level) :
            FirstOf(positioned, p) < FirstOf(positioned, q)
               => \A i \in GroupOf(positioned, p), j \in GroupOf(positioned, q) :
                     Lt(positioned[i].y, positioned[j].y)

\* C13: in the layout of the visible nodes two siblings never share a y, and
\* of two sibling groups at one depth the later one in traversal order lies
\* strictly below the earlier one, so that their [minY, maxY] ranges are disjoint
C13_LayoutKeepsGroupsApart ==
    currentTab = "tree" =>
        LET positioned == calculatePositions(VisibleNodes)
        IN  Evaluated(positioned) /\ SiblingsApart(positioned) /\ GroupsApart(positioned)

C13_Witness ==
    /\ currentTab = "tree"
    /\ {"root", "h0-0", "h0-1"} \subseteq expandedNodes
    /\ LET positioned == calculatePositions(VisibleNodes)
       IN  /\ Len(positioned) = 1 + 3 * nHarmonics
           /\ Cardinality(GroupParents(positioned, 1)) = 2


\* ---- the flattened records, checked under SpecEngine ----

\* the element of a nested array reached by zero-based indices; Null when
\* an index leaves the array
RECURSIVE ElementAt(_, _)
ElementAt(data, indices) ==
    IF indices = <<>> THEN data
    ELSE IF ~IsArray(data) \/ Head(indices) + 1 > Len(data.items) THEN Null
    ELSE ElementAt(data.items[Head(indices) + 1], Tail(indices))

IsLeafPath(data, indices) == IsNumber(ElementAt(data, indices))

\* p comes before q in lexicographic order
PathBefore(p, q) ==
    \E i \in 1..Min(Len(p), Len(q)) : SubSeq(p, 1, i - 1) = SubSeq(q, 1, i - 1) /\ p[i] < q[i]

RecordBefore(r1, r2) ==
    \/ r1.level < r2.level
    \/ r1.level = r2.level /\ PathBefore(r1.path, r2.path)

FlattenedInOrder(structure, records) ==
    /\ Len(records) >= 1
    /\ records[1].level = -1 /\ records[1].path = <<>> /\ records[1].frequency = structure.base
    /\ \A k \in 2..Len(records) :
          /\ records[k].level \in 0..(Len(structure.levels) - 1)
          /\ Len(records[k].path) = records[k].level + 1
          /\ ElementAt(structure.levels[records[k].level + 1], records[k].path)
                = records[k].frequency
          /\ k > 2 => RecordBefore(records[k - 1], records[k])
    /\ \A d \in 0..(Len(structure.levels) - 1) :
          \A indices \in [1..(d + 1) -> 0..(nHarmonics - 1)] :
              IsLeafPath(structure.levels[d + 1], indices)
                 => \E k \in 2..Len(records) : records[k].level = d /\ records[k].path = indices

\* C14: flatten emits the base record (depth -1, empty path) first and once,
\* then for d = 0..maxDepth in ascending order one record per leaf of
\* levels[d], with depth d and the d+1 indices that reach the leaf as path,
\* in lexicographic path order; no (depth, path) occurs twice
C14_RecordsInPathOrder ==
    (Built /\ ValidInput) =>
        /\ Len(harmonicStructure.levels) = recursionLevel + 1
        /\ LET records == extractAllFrequenciesWithPaths(harmonicStructure)
           IN  Evaluated(records) /\ FlattenedInOrder(harmonicStructure, records)

C14_Witness ==
    /\ Built /\ ValidInput
    /\ mode = "harmonic" /\ nHarmonics = 3 /\ recursionLevel = 2
    /\ LET records == extractAllFrequenciesWithPaths(harmonicStructure)
       IN  /\ Len(records) = 40
           /\ records[14].path = <<0, 0, 0>>
           /\ records[15].path = <<0, 0, 1>>
           /\ records[40].path = <<2, 2, 2>>


\* ---- degenerate numbers, checked under SpecEngine ----
IsNegative(v) == IsNumber(v) /\ ~IsNaN(v) /\ v.n < 0

\* a mode of the tuning rule together with what it needs
CallableTuning == mode \in Modes /\ (mode = "custom" => ~IsNull(customRatios))

CompletesWithoutError == Built /\ ~errorLogged

NoRecordIsNaN(records) ==
    \A k \in 1..Len(records) : IsNumber(records[k].frequency) /\ ~IsNaN(records[k].frequency)

NoRecordIsNegative(records) == \A k \in 1..Len(records) : ~IsNegative(records[k].frequency)

C15_NegativeWitness ==
    /\ BuildCalled /\ CallableTuning /\ CompletesWithoutError
    /\ IsNegative(baseFrequency) /\ mode = "harmonic" /\ recursionLevel = 1
    /\ Len(extractAllFrequenciesWithPaths(harmonicStructure)) = 13


\* ---- expand, checked under Spec ----

\* a call of toggleNode that expands the node with this id
ExpandStep(id) == ToggleStep /\ id \notin expandedNodes /\ id \in expandedNodes'

\* below the depth limit: the root, or a node whose children are no deeper than maxLevel
CanHaveChildren(node) == node.nodeType = "root" \/ node.level + 1 <= recursionLevel

Unexpanded == {node \in TreeNodes : Len(node.children) = 0 /\ CanHaveChildren(node)}

NodeAfter(id) == CHOOSE node \in TreeNodes' : node.id = id

\* the children list: one child per frequency, one level down, its path the
\* parent's path and its index
IsChildrenOf(children, node, freqs) ==
    /\ Len(children) = Len(freqs)
    /\ \A i \in 1..Len(children) :
          /\ children[i].level = node.level + 1
          /\ children[i].recursionIndices = Append(node.recursionIndices, i - 1)
          /\ children[i].value = freqs[i]
          /\ children[i].nodeType = "frequency"
          /\ children[i].children = <<>>

TuningRuleOn(f) == generateBaseFrequencies(f, nHarmonics, mode, CustomArg).items

OnlyAdds(id) == expandedNodes' = expandedNodes \cup {id}

AtDepthLimit == {node \in TreeNodes : node.nodeType = "frequency" /\ node.level + 1 > recursionLevel}

TreeWithinDepth == \A node \in TreeNodes : node.level <= recursionLevel

\* C17: expand(n) on a node with depth(n)+1 > maxDepth materializes no
\* children and leaves the tree unchanged, and every node of the tree has
\* depth <= maxDepth in every reachable state
C17_NoChildrenBeyondMaxDepth ==
    /\ []TreeWithinDepth
    /\ [][\A node \in AtDepthLimit : ExpandStep(node.id) => treeData' = treeData]_vars

\* A node at the depth limit has been expanded and has no children.
C17_Witness ==
    /\ currentTab = "tree"
    /\ \E node \in TreeNodes :
          /\ node.nodeType = "frequency" /\ node.level = recursionLevel
          /\ node.id \in expandedNodes
          /\ node.children = <<>>


\* ---- the visible list, checked under Spec ----
NodeWithId(id) == CHOOSE node \in TreeNodes : node.id = id

IsProperPrefix(p, q) == Len(p) < Len(q) /\ SubSeq(q, 1, Len(p)) = p

\* the nodes above a node: the root and the frequency nodes on its path
Ancestors(node) ==
    {anc \in TreeNodes \ {node} :
        anc.nodeType = "root" \/ IsProperPrefix(anc.recursionIndices, node.recursionIndices)}

\* a comes before b in a depth-first left-to-right walk
WalkedBefore(a, b) ==
    \/ a.nodeType = "root" /\ b.nodeType # "root"
    \/ /\ a.nodeType # "root" /\ b.nodeType # "root"
       /\ \/ IsProperPrefix(a.recursionIndices, b.recursionIndices)
          \/ PathBefore(a.recursionIndices, b.recursionIndices)

ShownNodes == {node \in TreeNodes : \A anc \in Ancestors(node) : anc.id \in expandedNodes}

VisibleInWalkOrder(visible) ==
    /\ Len(visible) >= 1 /\ visible[1].id = "root"
    /\ {visible[k].id : k \in 1..Len(visible)} = {node.id : node \in ShownNodes}
    /\ \A j, k \in 1..Len(visible) :
          j < k => WalkedBefore(NodeWithId(visible[j].id), NodeWithId(visible[k].id))

CollapsesRoot == ToggleStep /\ "root" \in expandedNodes /\ "root" \notin expandedNodes'

\* C18: the visible list starts with the root and holds, in depth-first
\* left-to-right order, exactly the nodes all of whose ancestors are
\* expanded; after collapse(root) it is the root alone and the tree still
\* holds every node it held
C18_VisibleIffAncestorsExpanded ==
    /\ [](currentTab = "tree" => VisibleInWalkOrder(VisibleNodes))
    /\ [][CollapsesRoot => /\ Len(VisibleNodes') = 1
                           /\ VisibleNodes'[1].id = "root"
                           /\ treeData' = treeData]_vars

\* The root is collapsed over materialized children and grandchildren.
C18_Witness ==
    /\ currentTab = "tree" /\ "root" \notin expandedNodes
    /\ Len(VisibleNodes) = 1
    /\ \E node \in TreeNodes : node.level = 1

\* Grandchildren are shown below an expanded child of the expanded root.
C18_DeepWitness ==
    /\ currentTab = "tree" /\ "root" \in expandedNodes
    /\ \E k \in 1..Len(VisibleNodes) : VisibleNodes[k].level = 1
    /\ \E node \in TreeNodes : node.level = 0 /\ node.id \notin expandedNodes


\* ---- the hasChildren flag, checked under Spec ----
Collapsed(visible) == {k \in 1..Len(visible) : ~visible[k].isExpanded}

\* C19 as claimed: for a visible node that is not expanded, hasChildren is
\* true exactly when the node is the root or its depth + 1 <= maxDepth,
\* whether or not its children have been materialized.
C19_FlagIsStructural ==
    currentTab = "tree" =>
        \A k \in Collapsed(VisibleNodes) :
            VisibleNodes[k].hasChildren <=> CanHaveChildren(NodeWithId(VisibleNodes[k].id))

\* C19 amended: for every visible node, expanded or not, hasChildren is true
\* exactly when the children of the node have been materialized; it is then
\* the root or has depth + 1 <= maxDepth, but a node that may still be
\* expanded and never was has hasChildren false.
C19_FlagIsMaterialized ==
    currentTab = "tree" =>
        \A k \in 1..Len(VisibleNodes) :
            /\ VisibleNodes[k].hasChildren <=> Len(NodeWithId(VisibleNodes[k].id).children) > 0
            /\ VisibleNodes[k].hasChildren => CanHaveChildren(NodeWithId(VisibleNodes[k].id))

\* Two collapsed children above the depth limit, one expanded before and one never.
C19_Witness ==
    /\ currentTab = "tree"
    /\ \E j, k \in Collapsed(VisibleNodes) :
          /\ VisibleNodes[j].level = 0 /\ VisibleNodes[k].level = 0 /\ recursionLevel >= 1
          /\ VisibleNodes[j].hasChildren
          /\ ~VisibleNodes[k].hasChildren


\* ---- mode just, checked under SpecEngine ----
JustTable == {JUST_INTONATION_RATIOS[i] : i \in 1..Len(JUST_INTONATION_RATIOS)}

JustTableSize == 13

\* the ratio of the table with exactly rank - 1 ratios below it
IsRanked(ratio, rank) ==
    ratio \in JustTable /\ Cardinality({other \in JustTable : Lt(other, ratio)}) = rank - 1

\* C20: in mode just, generate returns the min(breadth, 13) smallest ratios
\* of the 13-entry table 1/1 .. 2/1, each multiplied by f, in ascending
\* order of ratio, and does not fail for a breadth above 13
C20_JustIsCappedAtThirteen ==
    (BuildCalled /\ mode = "just") =>
        /\ Built /\ ~errorLogged
        /\ Cardinality(JustTable) = JustTableSize
        /\ IsRanked(Whole(1), 1) /\ IsRanked(Whole(2), JustTableSize)
        /\ Len(H0) = Min(nHarmonics, JustTableSize)
        /\ \A i \in 1..Len(H0) :
              \E ratio \in JustTable : IsRanked(ratio, i) /\ H0[i] = Mul(baseFrequency, ratio)

\* Twenty notes asked of the thirteen-entry table at 440 Hz.
C20_Witness ==
    /\ BuildCalled /\ Built /\ mode = "just" /\ nHarmonics = MaxCustomRatios
    /\ baseFrequency = Whole(440)
    /\ Len(H0) = JustTableSize
    /\ H0[2] = Num(1408, 3) /\ H0[JustTableSize] = Whole(880)


\* ---- the shape of the levels, checked under SpecEngine ----

\* data is nested to exactly depth array levels, every array of length width
\* and every leaf a number
RECURSIVE NestedTo(_, _, _)
NestedTo(data, depth, width) ==
    /\ IsArray(data)
    /\ Len(data.items) = width
    /\ \A i \in 1..width :
          IF depth = 1 THEN IsNumber(data.items[i])
          ELSE NestedTo(data.items[i], depth - 1, width)

\* the leaf of levels[d] at p is the (last index of p)-th output of the tuning
\* rule applied to the leaf of levels[d-1] at p without its last index
LeafFromParentLeaf(levels, d, p) ==
    LET parentLeaf == ElementAt(levels[d], SubSeq(p, 1, d))
    IN  ElementAt(levels[d + 1], p)
           = generateBaseFrequencies(parentLeaf, nHarmonics, mode, CustomArg).items[p[d + 1] + 1]

\* C21: for valid inputs levels has maxDepth + 1 layers, levels[d] is nested
\* to exactly d + 1 array levels with all arrays of one length, and for
\* d >= 1 every leaf of levels[d] is the output of the tuning rule, at the
\* leaf's last index, for the leaf of levels[d-1] above it
C21_LevelsAreNestedTuningRules ==
    (Built /\ ValidInput) =>
        LET levels == harmonicStructure.levels
            width == Len(levels[1].items)
        IN  /\ Len(levels) = recursionLevel + 1
            /\ \A d \in 0..recursionLevel : NestedTo(levels[d + 1], d + 1, width)
            /\ \A d \in 1..recursionLevel :
                  \A p \in [1..(d + 1) -> 0..(width - 1)] : LeafFromParentLeaf(levels, d, p)

\* Three layers of a just-intonation structure: 440 * 9/8 * 9/8 * 16/15 at 2, 2, 1.
C21_Witness ==
    /\ Built /\ ValidInput
    /\ mode = "just" /\ nHarmonics = 3 /\ recursionLevel = 2
    /\ baseFrequency = Whole(440)
    /\ ElementAt(harmonicStructure.levels[3], <<2, 2, 1>>) = Num(594, 1)


\* ---- one generation of results, checked under SpecResults ----
StructureFor(in) ==
    generateHarmonicStructure(in.base, in.level, in.n, in.tuning[1],
                              IF in.tuning[1] = "custom" THEN in.tuning[2] ELSE Null)

\* the three stored values are those of one call
SameGeneration ==
    \/ IsNull(harmonicStructure) /\ closePairs = <<>> /\ ratios = <<>>
    \/ \E in \in ResultInputs :
          /\ harmonicStructure = StructureFor(in)
          /\ closePairs = findCloseFrequencies(harmonicStructure, in.threshold)
          /\ ratios = analyzeFrequencyRatios(harmonicStructure, in.maxDenominator)

\* what a call leaves behind for the parameters it ran with
StoredByCall ==
    LET structure == generateHarmonicStructure(baseFrequency', recursionLevel', nHarmonics',
                                               mode', IF mode' = "custom" THEN customRatios'
                                                      ELSE Null)
    IN  IF structure = Thrown
        THEN errorLogged' /\ UNCHANGED <<harmonicStructure, closePairs, ratios>>
        ELSE /\ harmonicStructure' = structure
             /\ closePairs' = findCloseFrequencies(structure, threshold')
             /\ ratios' = analyzeFrequencyRatios(structure, maxDenominator')

\* C22: the stored structure, close pairs and ratios always come from one
\* call of calculateResults, the pairs and ratios computed from the stored
\* structure, and a call that throws replaces none of the three
C22_ResultsAreOneGeneration ==
    /\ []SameGeneration
    /\ [][StoredByCall]_vars

\* A call has thrown on an unknown mode and the results of an earlier call
\* with another depth and threshold are still stored.
C22_Witness ==
    /\ errorLogged /\ mode = "pythagorean"
    /\ recursionLevel = 0 /\ threshold = Num(1, 100)
    /\ ~IsNull(harmonicStructure) /\ Len(harmonicStructure.levels) = 2
    /\ closePairs = findCloseFrequencies(harmonicStructure, Num(1, 10))
    /\ Len(ratios) > 0


\* ---- the pair limit of the ratio analysis, checked under SpecEngine ----
\* position in the result of the pair of records i < j (counted from 1)
\* when the first m records are paired in ascending order
PairPosition(i, j, m) == (i - 1) * m - ((i - 1) * i) \div 2 + (j - i)

IsEntryOfPair(entry, freq1, freq2) ==
    /\ entry.freq1 = freq1.frequency /\ entry.path1 = freq1.pathString
    /\ entry.freq2 = freq2.frequency /\ entry.path2 = freq2.pathString
    /\ entry.actualRatio = Div(MathMin(freq1.frequency, freq2.frequency),
                               MathMax(freq1.frequency, freq2.frequency))
    /\ Gt(entry.actualRatio, Whole(0)) /\ ~Gt(entry.actualRatio, Whole(1))

PairsOfFirstRecords(allFreqs, approximations) ==
    LET m == Min(Len(allFreqs), PairLimit)
    IN  /\ 2 * Len(approximations) = m * (m - 1)
        /\ \A i \in 1..m : \A j \in (i + 1)..m :
              IsEntryOfPair(approximations[PairPosition(i, j, m)], allFreqs[i], allFreqs[j])
        /\ \A k \in 1..Len(approximations) : \A i \in (PairLimit + 1)..Len(allFreqs) :
              allFreqs[i].pathString \notin {approximations[k].path1, approximations[k].path2}

\* C23: on the records of a structure of positive frequencies the ratio
\* analysis returns one approximation for each pair i < j of the first
\* min(n, 100) records, in ascending (i, j) order, none of a record at
\* index 100 or above, each with actualRatio = min/max in (0, 1]
C23_AnalyzesFirstHundredRecords ==
    (lastCall = "analyze" /\ ValidInput) =>
        PairsOfFirstRecords(extractAllFrequenciesWithPaths(harmonicStructure), ratios)

\* The analysis of 156 records has returned the 4950 pairs of the first 100.
C23_Witness ==
    /\ lastCall = "analyze" /\ ValidInput
    /\ CurrentInput = LargeAnalysisInput
    /\ Len(ratios) = 4950
    /\ ratios[4950].path1 = extractAllFrequenciesWithPaths(harmonicStructure)[99].pathString
    /\ ratios[4950].path2 = extractAllFrequenciesWithPaths(harmonicStructure)[100].pathString


\* ---- horizontal layout, checked under Spec ----
EntryWithId(positioned, id) == positioned[CHOOSE k \in 1..Len(positioned) : positioned[k].id = id]

ColumnsByDepth(positioned) ==
    \A k \in 1..Len(positioned) :
        IF positioned[k].nodeType = "root"
        THEN positioned[k].x = 50 /\ positioned[k].y = Whole(200)
        ELSE /\ positioned[k].x = EntryWithId(positioned, positioned[k].parent).x + 250
             /\ positioned[k].x = 50 + 250 * (positioned[k].level + 1)

\* C24: calculatePositions puts the root at x = 50, y = 200 and every other
\* visible node 250 to the right of its parent, so a visible node of level d
\* is at x = 50 + 250 * (d + 1)
C24_ColumnsByDepth == ColumnsByDepth(calculatePositions(VisibleNodes))

\* A node of level 1 is drawn, two columns to the right of the root.
C24_Witness ==
    LET positioned == calculatePositions(VisibleNodes)
    IN  \E k \in 1..Len(positioned) :
            /\ positioned[k].level = 1
            /\ positioned[k].x = 550
            /\ EntryWithId(positioned, positioned[k].parent).x = 300


\* ---- dynamic spacing, checked under Spec ----
\* Largest count of visible frequency nodes the spacings are computed for.
MaxFrequencyNodes == 64

Between(v, lo, hi) == ~Lt(v, Whole(lo)) /\ ~Gt(v, Whole(hi))

SpacingsFor(N) ==
    /\ Between(nodeSpacingFor(N), 20, 50)
    /\ Between(groupSpacingFor(N), 10, 40)
    /\ N = 0 => nodeSpacingFor(N) = Whole(50) /\ groupSpacingFor(N) = Whole(40)
    /\ N >= 60 => nodeSpacingFor(N) = Whole(20) /\ groupSpacingFor(N) = Whole(10)
    /\ N > 0 => /\ ~Gt(nodeSpacingFor(N), nodeSpacingFor(N - 1))
                /\ ~Gt(groupSpacingFor(N), groupSpacingFor(N - 1))

FrequencyNodeCount ==
    Cardinality({k \in 1..Len(VisibleNodes) : VisibleNodes[k].nodeType = "frequency"})

\* C25: for every count N of visible frequency nodes, the count of the
\* current tree included, nodeSpacing is in [20, 50] and groupSpacing in
\* [10, 40], neither grows with N, they are 50 and 40 at N = 0 and 20 and 10
\* from N = 60 on
C25_SpacingShrinksWithCount ==
    /\ FrequencyNodeCount \in 0..MaxFrequencyNodes
    /\ \A N \in 0..MaxFrequencyNodes : SpacingsFor(N)

\* Six frequency nodes are drawn, with spacings strictly inside the ranges.
C25_Witness ==
    /\ FrequencyNodeCount = 6
    /\ nodeSpacingFor(FrequencyNodeCount) = Whole(47)
    /\ groupSpacingFor(FrequencyNodeCount) = Whole(37)


\* ---- node ids, checked under Spec ----
\* the id of the node of a level and path: "root" for the empty path, and
\* h<level>-<id of the node above>-<last index> below a frequency node
RECURSIVE IdOf(_, _)
IdOf(level, path) ==
    IF path = <<>> THEN "root"
    ELSE IF level = 0 THEN "h0-" \o ToString(path[1])
    ELSE "h" \o ToString(level) \o "-" \o IdOf(level - 1, SubSeq(path, 1, Len(path) - 1))
             \o "-" \o ToString(path[Len(path)])

\* the number of nodes of a tree, a node counted once for each place it is at
RECURSIVE Sum(_, _)
Sum(counts, k) == IF k = 0 THEN 0 ELSE counts[k] + Sum(counts, k - 1)

RECURSIVE NodeCount(_)
NodeCount(node) ==
    1 + Sum([k \in 1..Len(node.children) |-> NodeCount(node.children[k])], Len(node.children))

\* the place of a node: its children are at indices 0, 1, ... below its path
RECURSIVE PathsArePlaces(_)
PathsArePlaces(node) ==
    \A k \in 1..Len(node.children) :
        /\ node.children[k].recursionIndices = Append(node.recursionIndices, k - 1)
        /\ node.children[k].level = node.level + 1
        /\ PathsArePlaces(node.children[k])

\* Paths with one- and two-digit indices, down to the deepest level.
IdSampleIndices == {0, 1, 10, 11}
IdSamplePaths == UNION {[1..len -> IdSampleIndices] : len \in 1..(MaxRecursionLevel + 1)}

IdsTellPathsApart ==
    Cardinality({IdOf(Len(p) - 1, p) : p \in IdSamplePaths}) = Cardinality(IdSamplePaths)

\* C26: no two nodes of the tree have the same id, and the id of a node is
\* fixed by its level and path alone, whatever the parameters
C26_IdsAreUniqueAndFromPath ==
    ~IsNull(treeData) =>
        /\ Cardinality(TreeIds) = NodeCount(treeData)
        /\ PathsArePlaces(treeData)
        /\ \A node \in TreeNodes : node.id = IdOf(node.level, node.recursionIndices)
        /\ IdsTellPathsApart

\* Two children of the root carry children of their own, under custom ratios.
C26_Witness ==
    /\ ~IsNull(treeData) /\ mode = "custom"
    /\ {"h1-h0-0-1", "h1-h0-1-1"} \subseteq TreeIds
    /\ \E node \in TreeNodes : node.id = "h1-h0-1-1" /\ node.recursionIndices = <<1, 1>>


\* ---- the expanded set against the tree, checked under Spec ----
ExpandedAreMaterialized ==
    \A id \in expandedNodes :
        \E node \in TreeNodes : node.id = id /\ HasMaterializedChildren(node)

\* the tree as it is mounted: a bare root, marked expanded
FreshTree ==
    /\ currentTab = "tree"
    /\ expandedNodes = {"root"}
    /\ treeData.children = <<>>

TogglesRoot ==
    /\ ToggleStep
    /\ ("root" \in expandedNodes) # ("root" \in expandedNodes')

RootChildrenShown ==
    /\ Len(treeData.children) > 0
    /\ \A k \in 1..Len(treeData.children) : treeData.children[k].id \in VisibleIds

\* C27: every id in the expanded set is the id of a node of the tree whose
\* children are materialized, and the first toggle of the root of a freshly
\* mounted tree shows the root's children
C27_ExpandedHaveChildren ==
    /\ [](currentTab = "tree" => ExpandedAreMaterialized)
    /\ [][(FreshTree /\ TogglesRoot) => RootChildrenShown']_vars

\* The root of the mounted tree has been toggled once: nothing is expanded,
\* nothing is materialized and the root alone is drawn.
C27_Witness ==
    /\ currentTab = "tree"
    /\ expandedNodes = {}
    /\ treeData.children = <<>>
    /\ VisibleIds = {"root"}


\* ---- the expanded set across parameter changes, checked under Spec ----
\* a parameter changes while the tree is drawn: the tree is handed a fresh root
ParameterChange ==
    /\ currentTab = "tree" /\ currentTab' = "tree"
    /\ params' # params

\* C28: a change of any of the seven parameters resets the expanded set to
\* {root} together with the tree, and every id in the expanded set is the id
\* of a node of the current tree
C28_ExpandedResetWithTree ==
    /\ [](currentTab = "tree" => expandedNodes \subseteq TreeIds)
    /\ [][ParameterChange => (treeData'.children = <<>> /\ expandedNodes' = {"root"})]_vars

\* What holds: the set is reset when base, breadth, mode or depth changes,
\* and kept when only threshold, maxDenominator or customRatios change.
TreeParameters == <<baseFrequency, nHarmonics, mode, recursionLevel>>

C28_ResetOnTreeParameters ==
    [][ParameterChange =>
          /\ treeData'.children = <<>>
          /\ expandedNodes' = IF TreeParameters' # TreeParameters THEN {"root"}
                              ELSE expandedNodes]_vars

\* The threshold has changed under an expanded child of the root: the tree is
\* a bare root again and the child's id is still in the expanded set.
C28_Witness ==
    /\ currentTab = "tree"
    /\ treeData.children = <<>>
    /\ "h0-0" \in expandedNodes
    /\ threshold # DefaultThreshold


\* ---- the lazy tree against the eager structure, checked under Spec ----
RecordsAt(records, level, path) ==
    {k \in 1..Len(records) : records[k].level = level /\ records[k].path = path}

\* the node's value is the frequency of the one record of its level and path
AgreesWithRecord(node, records) ==
    /\ Cardinality(RecordsAt(records, node.level, node.recursionIndices)) = 1
    /\ \A k \in RecordsAt(records, node.level, node.recursionIndices) :
          records[k].frequency = node.value

TreeAgreesWith(records) ==
    /\ records[1].level = -1 /\ records[1].frequency = treeData.value
    /\ \A node \in TreeNodes : AgreesWithRecord(node, records)

\* C29: for a positive base, the value of every node of the tree, the root
\* included, is the frequency of the record of the same level and path among
\* the flattened records of the structure built from the same base, depth,
\* breadth, mode and custom ratios
C29_TreeAgreesWithStructure ==
    (currentTab = "tree" /\ IsPositive(baseFrequency)) =>
        TreeAgreesWith(extractAllFrequenciesWithPaths(
            generateHarmonicStructure(baseFrequency, recursionLevel, nHarmonics, mode,
                                      CustomArg)))

\* A node of level 1 is materialized under the second child of the root,
\* in mode custom: 440 * 3/2 * 3/2 = 990.
C29_Witness ==
    /\ currentTab = "tree" /\ IsPositive(baseFrequency) /\ mode = "custom"
    /\ \E node \in TreeNodes :
          /\ node.recursionIndices = <<1, 1>>
          /\ node.value = Whole(990)


\* ---- the stored custom ratios, checked under SpecRatios ----
StoredRatiosAreValid ==
    /\ IsArray(customRatios)
    /\ Len(customRatios.items) >= 2 /\ Len(customRatios.items) <= 20
    /\ \A k \in 1..Len(customRatios.items) :
          /\ IsNumber(customRatios.items[k]) /\ ~IsNaN(customRatios.items[k])
          /\ Gt(customRatios.items[k], Whole(0))

\* the positive numbers among the parsed entries of a text, in order
PositiveEntries(parsed) ==
    SelectSeq(parsed, LAMBDA n : ~IsNaN(n) /\ Gt(n, Whole(0)))

\* the stored list is replaced only by the positive entries of a text that
\* has from 2 to 20 of them
ReplacedFromAcceptedText ==
    customRatios' # customRatios =>
        \E parsed \in RatioTextInputs :
            /\ Len(PositiveEntries(parsed)) >= 2 /\ Len(PositiveEntries(parsed)) <= 20
            /\ customRatios' = Arr(PositiveEntries(parsed))

\* C30: the stored custom ratios are always 2 to 20 positive numbers, none
\* of them NaN, and a text with fewer than 2 or more than 20 positive
\* entries leaves the stored list as it was
C30_StoredRatiosStayValid ==
    /\ []StoredRatiosAreValid
    /\ [][ReplacedFromAcceptedText]_vars

\* A text of 20 ratios has been stored.
C30_Witness ==
    /\ mode = "custom"
    /\ Len(customRatios.items) = 20
    /\ customRatios.items[20] = Num(39, 20)

====
